---- MODULE Spec2Model ----
(***************************************************************************)
(* Verification model of the six chess players of this repository:        *)
(*   AC  AggressiveChessPlayer   src/chess_player_aggressive.py            *)
(*   DC  DefensiveChessPlayer    src/chess_player_defensive.py             *)
(*   AA  AggressiveAttacker      src/chess_players/aggressive_attacker.py  *)
(*   AP  AggressivePlayer        src/chess_players/aggressive_player.py    *)
(*   PD  PositionalDefender      src/chess_players/positional_defender.py  *)
(*   PP  PositionalPlayer        src/chess_players/positional_player.py    *)
(*                                                                         *)
(* The rules engine (python-chess) is the players' collaborator.  It is    *)
(* modelled as an abstract game: a finite set of positions, each with a    *)
(* classification, a check flag, a White-positive heuristic total (the sum *)
(* of the evaluator's feature terms) and an ordered list of legal moves.   *)
(* A board is a move stack plus the side-to-move flag the code may assign. *)
(***************************************************************************)
EXTENDS Integers, Sequences, FiniteSets, TLC

VARIABLES game, board, player, last

vars == <<game, board, player, last>>

(***************************** bounds **************************************)
NPos == 4
MaxDepth == 3
MaxStack == 1
HMax == 1
MaxHistory == 2
LongHistory == 11
MaxNodes == 1
MaxMoves == 3
MaxMobility == 218
MaxCheckers == 2

(***************************** colours, scores *****************************)
WHITE == TRUE
BLACK == FALSE

Inf == 1000000

Max(a, b) == IF a >= b THEN a ELSE b
Min(a, b) == IF a <= b THEN a ELSE b

(***************************** pieces **************************************)
PAWN == 1
KNIGHT == 2
BISHOP == 3
ROOK == 4
QUEEN == 5
KING == 6
NoPiece == 0

\* PIECE_VALUES of AC, DC, AP, PD, PP (identical tables).
PIECE_VALUES == [k \in 0..6 |->
  CASE k = 1 -> 100 [] k = 2 -> 320 [] k = 3 -> 330 [] k = 4 -> 500
    [] k = 5 -> 900 [] k = 6 -> 20000 [] OTHER -> 0]

\* PIECE_VALUES of AggressiveAttacker.
AA_PIECE_VALUES == [k \in 0..6 |->
  CASE k = 1 -> 100 [] k = 2 -> 300 [] k = 3 -> 320 [] k = 4 -> 500
    [] k = 5 -> 900 [] OTHER -> 0]

(***************************** rules engine ********************************)
Pos == 1..NPos
WhiteToMove(p) == p % 2 = 1

Classes == {"ongoing", "checkmate", "stalemate", "insufficient",
            "claimable", "seventyfive"}

\* What the move generator reports about one move: the piece moved, the
\* piece on the target square, and the geometric facts the orderings read.
MoveKinds == [
  quiet   |-> [capture |-> FALSE, victim |-> NoPiece, piece |-> ROOK,
               promotion |-> NoPiece, castling |-> FALSE, center |-> 0,
               adv |-> 0, approach |-> 0, manhattan |-> 5,
               centerBonus |-> 10, away |-> FALSE, fromHome |-> FALSE],
  develop |-> [capture |-> FALSE, victim |-> NoPiece, piece |-> KNIGHT,
               promotion |-> NoPiece, castling |-> FALSE, center |-> 0,
               adv |-> 0, approach |-> 0, manhattan |-> 6,
               centerBonus |-> 10, away |-> FALSE, fromHome |-> TRUE],
  takes   |-> [capture |-> TRUE, victim |-> QUEEN, piece |-> PAWN,
               promotion |-> NoPiece, castling |-> FALSE, center |-> 0,
               adv |-> 1, approach |-> 1, manhattan |-> 3,
               centerBonus |-> 20, away |-> TRUE, fromHome |-> FALSE],
  takesPawn |-> [capture |-> TRUE, victim |-> PAWN, piece |-> PAWN,
               promotion |-> NoPiece, castling |-> FALSE, center |-> 0,
               adv |-> 1, approach |-> 1, manhattan |-> 3,
               centerBonus |-> 20, away |-> TRUE, fromHome |-> FALSE],
  queenTakes |-> [capture |-> TRUE, victim |-> QUEEN, piece |-> QUEEN,
               promotion |-> NoPiece, castling |-> FALSE, center |-> 0,
               adv |-> 1, approach |-> 1, manhattan |-> 3,
               centerBonus |-> 20, away |-> TRUE, fromHome |-> FALSE],
  enPassant |-> [capture |-> TRUE, victim |-> NoPiece, piece |-> PAWN,
               promotion |-> NoPiece, castling |-> FALSE, center |-> 0,
               adv |-> 1, approach |-> 1, manhattan |-> 3,
               centerBonus |-> 20, away |-> TRUE, fromHome |-> FALSE],
  advance |-> [capture |-> FALSE, victim |-> NoPiece, piece |-> PAWN,
               promotion |-> NoPiece, castling |-> FALSE, center |-> 0,
               adv |-> 1, approach |-> 1, manhattan |-> 3,
               centerBonus |-> 20, away |-> TRUE, fromHome |-> FALSE]
]

KindNames == DOMAIN MoveKinds

NullMove == [to |-> 0, kind |-> "null"]

\* The j-th position with the other side to move.
Target(p, j) == IF WhiteToMove(p) THEN 2 * j ELSE 2 * j - 1

\* chess.Board: move stack and side to move, with a count of the push and
\* pop calls it has received and the greatest length its stack has had.
\* The position a move stack leads to from the game's starting position.
Replay(stack) ==
  LET real == SelectSeq(stack, LAMBDA m : m.kind # "null")
  IN IF real = <<>> THEN game.start ELSE real[Len(real)].to

Placement(b) == b.at

NewBoard == [stack |-> <<>>, turn |-> WhiteToMove(game.start),
             at |-> game.start, pushes |-> 0, pops |-> 0, high |-> 0]

Push(b, m) == [b EXCEPT !.stack = Append(@, m), !.turn = ~@,
                        !.at = IF m.kind = "null" THEN @ ELSE m.to,
                        !.pushes = @ + 1,
                        !.high = Max(@, Len(b.stack) + 1)]
Pop(b) == [b EXCEPT !.stack = SubSeq(@, 1, Len(@) - 1), !.turn = ~@,
                    !.at = Replay(SubSeq(b.stack, 1, Len(b.stack) - 1)),
                    !.pops = @ + 1]

\* The same board with its call counts cleared.
Fresh(b) == [b EXCEPT !.pushes = 0, !.pops = 0, !.high = Len(b.stack)]

Natural(b) == b.turn = WhiteToMove(Placement(b))

LegalMoves(b) ==
  IF Natural(b)
  THEN LET p == Placement(b)
       IN [i \in 1..Len(game.pos[p].moves) |->
             [to |-> Target(p, game.pos[p].moves[i].tgt),
              kind |-> game.pos[p].moves[i].kind]]
  ELSE <<>>

Cls(b) == game.pos[Placement(b)].cls
IsCheck(b) == Natural(b) /\ game.pos[Placement(b)].chk
IsCheckmate(b) == Natural(b) /\ Cls(b) = "checkmate"
IsStalemate(b) == Natural(b) /\ Cls(b) = "stalemate"
IsInsufficientMaterial(b) == Cls(b) = "insufficient"
CanClaimDraw(b) == Cls(b) \in {"claimable", "seventyfive"}
IsGameOver(b) ==
  LET c == Cls(b)
  IN \/ Natural(b) /\ c \in {"checkmate", "stalemate"}
     \/ c \in {"insufficient", "seventyfive"}

\* board.fen(): placement, side to move and the move counters.
Fen(b) == <<Placement(b), b.turn, Len(b.stack)>>

\* The White-positive total of the evaluator's feature terms.
Features(b) == game.pos[Placement(b)].h

(***************************** move ordering *******************************)
\* A descending sort that puts moves of equal key in reverse input order.
SortDesc_unstable(moves, keys) ==
  LET n == Len(moves)
      rank(i) == 1 + Cardinality({j \in 1..n : keys[j] > keys[i]})
                   + Cardinality({j \in (i + 1)..n : keys[j] = keys[i]})
  IN [k \in 1..n |-> moves[CHOOSE i \in 1..n : rank(i) = k]]

\* sorted(moves, key=..., reverse=True): stable, descending.
SortDesc(moves, keys) ==
  LET n == Len(moves)
      rank(i) == 1 + Cardinality({j \in 1..n : keys[j] > keys[i]})
                   + Cardinality({j \in 1..(i - 1) : keys[j] = keys[i]})
  IN [k \in 1..n |-> moves[CHOOSE i \in 1..n : rank(i) = k]]

None == [to |-> 0, kind |-> "none"]

\* A move-ordering pass after one more candidate: the board its scoring left
\* behind and the keys so far.
Keyed(prev, s) == [board |-> s.board, keys |-> Append(prev.keys, s.score)]

\* sorted(moves, key=..., reverse=True) over the keys of a finished pass: a
\* new list is returned, the list passed in (input) keeps its order.
Sorted(moves, all) ==
  [moves |-> SortDesc(moves, all.keys), board |-> all.board, input |-> moves]

\* moves.sort(key=..., reverse=True): the list passed in is itself sorted.
SortedInPlace(moves, all) ==
  [moves |-> SortDesc(moves, all.keys), board |-> all.board,
   input |-> SortDesc(moves, all.keys)]

\* The search's record of its own steps: every recursive call entered, with
\* the position it stands on and its arguments, and every child score
\* folded into the bounds of a frame, with the bounds and the best value
\* that result.
Step(ev, ctx, depth, alpha, beta, maximizing, score, best) ==
  [ev |-> ev, stack |-> ctx.board.stack, turn |-> ctx.board.turn,
   depth |-> depth, alpha |-> alpha, beta |-> beta,
   maximizing |-> maximizing, score |-> score, best |-> best]

Entered(ctx, depth, alpha, beta, maximizing) ==
  [ctx EXCEPT !.trace =
     Append(@, Step("call", ctx, depth, alpha, beta, maximizing, 0, 0))]

Folded(ctx, depth, alpha, beta, maximizing, score, best) ==
  [ctx EXCEPT !.trace =
     Append(@, Step("fold", ctx, depth, alpha, beta, maximizing, score,
                    best))]

\* The root loop of get_best_move compares the score of the move on top of
\* the stack with its best score so far.
Rooted(ctx, score, maximizing) ==
  [ctx EXCEPT !.trace =
     Append(@, Step("root", ctx, ctx.self.depth, 0, 0, maximizing, score,
                    0))]

\* A frame that returns the static evaluation e.
Leaf(ctx, e) == [score |-> e.score, ctx |-> [ctx EXCEPT !.board = e.board]]

(***************************************************************************)
(* AggressiveChessPlayer (negamax)                                         *)
(***************************************************************************)
AC_MATE == 99999

AC_evaluate_piece_activity(b) ==
  LET original_turn == b.turn
      b1 == [b EXCEPT !.turn = WHITE]
      b2 == [b1 EXCEPT !.turn = BLACK]
  IN [b2 EXCEPT !.turn = original_turn]

AC_evaluate_position(b) ==
  IF IsCheckmate(b)
  THEN [score |-> IF b.turn THEN -AC_MATE ELSE AC_MATE, board |-> b]
  ELSE IF IsStalemate(b) \/ IsInsufficientMaterial(b)
  THEN [score |-> 0, board |-> b]
  ELSE LET b1 == AC_evaluate_piece_activity(b)
       IN [score |-> IF b1.turn = WHITE THEN Features(b) ELSE -Features(b),
           board |-> b1]

AC_move_score(b, move) ==
  LET k == MoveKinds[move.kind]
      cap == IF k.capture /\ k.victim # NoPiece /\ k.piece # NoPiece
             THEN 10000 + PIECE_VALUES[k.victim]
                        - (PIECE_VALUES[k.piece] \div 10)
             ELSE 0
      b1 == Push(b, move)
      chk == IF IsCheck(b1) THEN 5000 ELSE 0
      b2 == Pop(b1)
      promo == IF k.promotion # NoPiece
               THEN 8000 + PIECE_VALUES[k.promotion] ELSE 0
      ctr == IF k.center = 1 THEN 100 ELSE IF k.center = 2 THEN 50 ELSE 0
  IN [score |-> cap + chk + promo + ctr + k.adv * 20, board |-> b2]

\* One pass over the candidate moves, each key computed on the board the
\* previous candidate's scoring left behind, then the stable sort.
AC_score_next(prev, move) == Keyed(prev, AC_move_score(prev.board, move))

AC_order_moves(b, moves) ==
  LET scored[i \in 0..Len(moves)] ==
        IF i = 0 THEN [board |-> b, keys |-> <<>>]
        ELSE AC_score_next(scored[i - 1], moves[i])
  IN Sorted(moves, scored[Len(moves)])

\* The cutoff test with its comparison turned round.
AC_cutoff_inverted(alpha, beta) == alpha <= beta

AC_cutoff(alpha, beta) == alpha >= beta

RECURSIVE AC_minimax(_, _, _, _), AC_children(_, _, _, _, _, _, _)

AC_leaf(ctx) == Leaf(ctx, AC_evaluate_position(ctx.board))

\* The loop over the ordered moves o of one _minimax frame.
AC_search(ctx, o, depth, alpha, beta) ==
  AC_children([ctx EXCEPT !.board = o.board], o.moves, 1, depth, alpha, beta,
              -Inf)

AC_minimax(ctx, depth, alpha, beta) ==
  LET c == Entered(ctx, depth, alpha, beta, TRUE)
  IN
  IF depth = 0 \/ IsGameOver(c.board) THEN AC_leaf(c)
  ELSE IF LegalMoves(c.board) = <<>> THEN AC_leaf(c)
  ELSE AC_search(c, AC_order_moves(c.board, LegalMoves(c.board)),
                 depth, alpha, beta)

\* The rest of one loop iteration once the recursive call has returned r.
AC_child(r, prune, moves, i, depth, alpha, beta, best_score) ==
  LET score == -r.score
      c2 == [r.ctx EXCEPT !.board = Pop(@)]
      best2 == Max(best_score, score)
      alpha2 == Max(alpha, score)
      c3 == Folded(c2, depth, alpha2, beta, TRUE, r.score, best2)
  IN IF prune /\ AC_cutoff(alpha2, beta)
     THEN [score |-> best2, ctx |-> c3]
     ELSE AC_children(c3, moves, i + 1, depth, alpha2, beta, best2)

\* The move loop that pushes a move without counting the node.
AC_children_uncounted(ctx, moves, i, depth, alpha, beta, best_score) ==
  IF i > Len(moves) THEN [score |-> best_score, ctx |-> ctx]
  ELSE AC_child(AC_minimax([ctx EXCEPT !.board = Push(@, moves[i])],
                           depth - 1, -beta, -alpha),
                ctx.prune, moves, i, depth, alpha, beta, best_score)

AC_children(ctx, moves, i, depth, alpha, beta, best_score) ==
  IF i > Len(moves) THEN [score |-> best_score, ctx |-> ctx]
  ELSE AC_child(AC_minimax([ctx EXCEPT !.board = Push(@, moves[i]),
                                       !.self.nodes = @ + 1],
                           depth - 1, -beta, -alpha),
                ctx.prune, moves, i, depth, alpha, beta, best_score)

RECURSIVE AC_root(_, _, _, _, _, _)

\* The rest of one root iteration once the recursive call has returned r.
AC_root_child(r, moves, i, alpha, best_score, best_move) ==
  LET score == -r.score
      better == score > best_score
  IN AC_root([Rooted(r.ctx, score, TRUE) EXCEPT !.board = Pop(@)],
             moves, i + 1,
             Max(alpha, score),
             IF better THEN score ELSE best_score,
             IF better THEN moves[i] ELSE best_move)

\* The root loop that hands its whole depth on to the root moves.
AC_root_full_depth(ctx, moves, i, alpha, best_score, best_move) ==
  IF i > Len(moves)
  THEN [move |-> best_move, score |-> best_score, ctx |-> ctx]
  ELSE AC_root_child(AC_minimax([ctx EXCEPT !.board = Push(@, moves[i]),
                                            !.self.nodes = @ + 1],
                                ctx.self.depth, -Inf, -alpha),
                     moves, i, alpha, best_score, best_move)

AC_root(ctx, moves, i, alpha, best_score, best_move) ==
  IF i > Len(moves)
  THEN [move |-> best_move, score |-> best_score, ctx |-> ctx]
  ELSE AC_root_child(AC_minimax([ctx EXCEPT !.board = Push(@, moves[i]),
                                            !.self.nodes = @ + 1],
                                ctx.self.depth - 1, -Inf, -alpha),
                     moves, i, alpha, best_score, best_move)

\* The root loop over the ordered moves o.
AC_root_search(ctx, o) ==
  AC_root([ctx EXCEPT !.board = o.board], o.moves, 1, -Inf, -Inf, None)

AC_get_best_move(ctx) ==
  IF LegalMoves(ctx.board) = <<>>
  THEN [move |-> None, score |-> -Inf, ctx |-> [ctx EXCEPT !.self.nodes = 0]]
  ELSE AC_root_search([ctx EXCEPT !.self.nodes = 0],
                      AC_order_moves(ctx.board, LegalMoves(ctx.board)))

\* The announcement that takes the move back and never plays it again.
AC_played_unpushed(r) ==
  IF r.move # None
  THEN [r EXCEPT !.ctx.board = Pop(Push(@, r.move))]
  ELSE r

\* The rest of play_turn once get_best_move has returned r: the move is
\* pushed to look for check, popped for its notation and pushed again.
AC_played(r) ==
  IF r.move # None
  THEN [r EXCEPT !.ctx.board = Push(Pop(Push(@, r.move)), r.move)]
  ELSE r

AC_play_turn(ctx) == AC_played(AC_get_best_move(ctx))

(***************************************************************************)
(* DefensiveChessPlayer (explicit max/min, White-positive evaluator)       *)
(***************************************************************************)
DC_MATE == 100000

DC_evaluate_position(b) ==
  IF IsCheckmate(b)
  THEN [score |-> IF b.turn = WHITE THEN -DC_MATE ELSE DC_MATE, board |-> b]
  ELSE IF IsStalemate(b) \/ IsInsufficientMaterial(b)
  THEN [score |-> 0, board |-> b]
  ELSE IF CanClaimDraw(b) THEN [score |-> 0, board |-> b]
  ELSE [score |-> Features(b), board |-> b]

DC_move_priority(b, move) ==
  LET k == MoveKinds[move.kind]
      cap == IF k.capture
             THEN 100 + (IF k.victim # NoPiece THEN PIECE_VALUES[k.victim] ELSE 0)
                      - (IF k.piece # NoPiece
                         THEN PIECE_VALUES[k.piece] \div 10 ELSE 0)
             ELSE 0
      b1 == Push(b, move)
      chk == IF IsCheck(b1) THEN 50 ELSE 0
      b2 == Pop(b1)
  IN [score |-> cap + chk, board |-> b2]

\* One pass over the candidate moves, each key computed on the board the
\* previous candidate's scoring left behind, then the stable sort.
DC_priority_next(prev, move) ==
  Keyed(prev, DC_move_priority(prev.board, move))

DC_order_moves(b, moves) ==
  LET scored[i \in 0..Len(moves)] ==
        IF i = 0 THEN [board |-> b, keys |-> <<>>]
        ELSE DC_priority_next(scored[i - 1], moves[i])
  IN SortedInPlace(moves, scored[Len(moves)])

DC_cutoff(alpha, beta) == beta <= alpha

RECURSIVE DC_minimax(_, _, _, _, _), DC_max(_, _, _, _, _, _, _, _),
          DC_min(_, _, _, _, _, _, _, _)

\* A frame that returns the static evaluation e and no move.
DC_leaf(ctx, e) ==
  [score |-> e.score, move |-> None, ctx |-> [ctx EXCEPT !.board = e.board]]

\* The loop over the ordered moves o of one minimax frame.
DC_search(ctx, o, depth, alpha, beta, maximizing) ==
  IF maximizing
  THEN DC_max([ctx EXCEPT !.board = o.board], o.moves, 1, depth, alpha, beta,
              -Inf, None)
  ELSE DC_min([ctx EXCEPT !.board = o.board], o.moves, 1, depth, alpha, beta,
              Inf, None)

DC_minimax(ctx, depth, alpha, beta, maximizing) ==
  LET c == Entered(ctx, depth, alpha, beta, maximizing)
  IN
  IF depth = 0 \/ IsGameOver(c.board)
  THEN DC_leaf([c EXCEPT !.self.nodes = @ + 1],
               DC_evaluate_position(c.board))
  ELSE DC_search([c EXCEPT !.self.nodes = @ + 1],
                 DC_order_moves(c.board, LegalMoves(c.board)),
                 depth, alpha, beta, maximizing)

\* The rest of one maximizing iteration once the recursive call returned r.
DC_max_child(r, prune, moves, i, depth, alpha, beta, max_eval, best_move) ==
  LET c2 == [r.ctx EXCEPT !.board = Pop(@)]
      better == r.score > max_eval
      max2 == IF better THEN r.score ELSE max_eval
      move2 == IF better THEN moves[i] ELSE best_move
      alpha2 == Max(alpha, r.score)
      c3 == Folded(c2, depth, alpha2, beta, TRUE, r.score, max2)
  IN IF prune /\ DC_cutoff(alpha2, beta)
     THEN [score |-> max2, move |-> move2, ctx |-> c3]
     ELSE DC_max(c3, moves, i + 1, depth, alpha2, beta, max2, move2)

DC_max(ctx, moves, i, depth, alpha, beta, max_eval, best_move) ==
  IF i > Len(moves) THEN [score |-> max_eval, move |-> best_move, ctx |-> ctx]
  ELSE DC_max_child(DC_minimax([ctx EXCEPT !.board = Push(@, moves[i])],
                               depth - 1, alpha, beta, FALSE),
                    ctx.prune, moves, i, depth, alpha, beta, max_eval,
                    best_move)

\* The rest of one minimizing iteration once the recursive call returned r.
DC_min_child(r, prune, moves, i, depth, alpha, beta, min_eval, best_move) ==
  LET c2 == [r.ctx EXCEPT !.board = Pop(@)]
      better == r.score < min_eval
      min2 == IF better THEN r.score ELSE min_eval
      move2 == IF better THEN moves[i] ELSE best_move
      beta2 == Min(beta, r.score)
      c3 == Folded(c2, depth, alpha, beta2, FALSE, r.score, min2)
  IN IF prune /\ DC_cutoff(alpha, beta2)
     THEN [score |-> min2, move |-> move2, ctx |-> c3]
     ELSE DC_min(c3, moves, i + 1, depth, alpha, beta2, min2, move2)

DC_min(ctx, moves, i, depth, alpha, beta, min_eval, best_move) ==
  IF i > Len(moves) THEN [score |-> min_eval, move |-> best_move, ctx |-> ctx]
  ELSE DC_min_child(DC_minimax([ctx EXCEPT !.board = Push(@, moves[i])],
                               depth - 1, alpha, beta, TRUE),
                    ctx.prune, moves, i, depth, alpha, beta, min_eval,
                    best_move)

\* get_best_move without its game-over guard.
DC_get_best_move_unguarded(ctx) ==
  DC_minimax([ctx EXCEPT !.self.nodes = 0], ctx.self.depth, -Inf, Inf,
             ctx.board.turn = WHITE)

DC_get_best_move(ctx) ==
  IF IsGameOver(ctx.board)
  THEN [move |-> None, score |-> 0, ctx |-> ctx]
  ELSE DC_minimax([ctx EXCEPT !.self.nodes = 0], ctx.self.depth, -Inf, Inf,
                  ctx.board.turn = WHITE)

\* bool(chess.Move): false for the null move only.
Truthy(move) == move # None /\ move # NullMove

\* The rest of play_turn once get_best_move has returned r.
DC_played(r) ==
  IF Truthy(r.move)
  THEN [r EXCEPT !.ctx.board = Push(@, r.move)]
  ELSE [r EXCEPT !.move = None]

DC_play_turn(ctx) == DC_played(DC_get_best_move(ctx))

(***************************************************************************)
(* AggressivePlayer (explicit max/min, White-positive evaluator)           *)
(***************************************************************************)
AP_MATE == 20000

\* The mobility probe that leaves its null move on the board.
AP_evaluate_mobility_unpopped(b) == Push(b, NullMove)

AP_evaluate_mobility(b) == Pop(Push(b, NullMove))

AP_evaluate_position(b) ==
  IF IsCheckmate(b)
  THEN [score |-> IF b.turn = WHITE THEN -AP_MATE ELSE AP_MATE, board |-> b]
  ELSE IF IsStalemate(b) \/ IsInsufficientMaterial(b)
  THEN [score |-> 0, board |-> b]
  ELSE [score |-> Features(b), board |-> AP_evaluate_mobility(b)]

AP_move_score(b, move) ==
  LET k == MoveKinds[move.kind]
      cap == IF k.capture
             THEN IF k.victim # NoPiece /\ k.piece # NoPiece
                  THEN 10000 + PIECE_VALUES[k.victim]
                             - (PIECE_VALUES[k.piece] \div 10)
                  ELSE 10000
             ELSE 0
      b1 == Push(b, move)
      chk == IF IsCheck(b1) THEN 5000 ELSE 0
      b2 == Pop(b1)
      ctr == IF k.center = 1 THEN 500 ELSE IF k.center = 2 THEN 200 ELSE 0
      king == IF k.manhattan <= 2 THEN 300 - k.manhattan * 50 ELSE 0
      promo == IF k.promotion # NoPiece THEN PIECE_VALUES[k.promotion] ELSE 0
  IN [score |-> cap + chk + ctr + king + promo, board |-> b2]

\* One pass over the candidate moves, each key computed on the board the
\* previous candidate's scoring left behind, then the stable sort.
AP_score_next(prev, move) == Keyed(prev, AP_move_score(prev.board, move))

AP_order_moves(b, moves) ==
  LET scored[i \in 0..Len(moves)] ==
        IF i = 0 THEN [board |-> b, keys |-> <<>>]
        ELSE AP_score_next(scored[i - 1], moves[i])
  IN Sorted(moves, scored[Len(moves)])

AP_cutoff(alpha, beta) == beta <= alpha

RECURSIVE AP_minimax(_, _, _, _, _), AP_max(_, _, _, _, _, _, _),
          AP_min(_, _, _, _, _, _, _)

\* The loop over the ordered moves o of one minimax frame.
AP_search(ctx, o, depth, alpha, beta, maximizing) ==
  IF maximizing
  THEN AP_max([ctx EXCEPT !.board = o.board], o.moves, 1, depth, alpha, beta,
              -Inf)
  ELSE AP_min([ctx EXCEPT !.board = o.board], o.moves, 1, depth, alpha, beta,
              Inf)

AP_minimax(ctx, depth, alpha, beta, maximizing) ==
  LET c == Entered(ctx, depth, alpha, beta, maximizing)
  IN
  IF depth = 0 \/ IsGameOver(c.board)
  THEN Leaf([c EXCEPT !.self.nodes = @ + 1],
            AP_evaluate_position(c.board))
  ELSE AP_search([c EXCEPT !.self.nodes = @ + 1],
                 AP_order_moves(c.board, LegalMoves(c.board)),
                 depth, alpha, beta, maximizing)

\* The rest of one maximizing iteration once the recursive call returned r.
AP_max_child(r, prune, moves, i, depth, alpha, beta, max_eval) ==
  LET c2 == [r.ctx EXCEPT !.board = Pop(@)]
      max2 == Max(max_eval, r.score)
      alpha2 == Max(alpha, r.score)
      c3 == Folded(c2, depth, alpha2, beta, TRUE, r.score, max2)
  IN IF prune /\ AP_cutoff(alpha2, beta)
     THEN [score |-> max2, ctx |-> c3]
     ELSE AP_max(c3, moves, i + 1, depth, alpha2, beta, max2)

AP_max(ctx, moves, i, depth, alpha, beta, max_eval) ==
  IF i > Len(moves) THEN [score |-> max_eval, ctx |-> ctx]
  ELSE AP_max_child(AP_minimax([ctx EXCEPT !.board = Push(@, moves[i])],
                               depth - 1, alpha, beta, FALSE),
                    ctx.prune, moves, i, depth, alpha, beta, max_eval)

\* The rest of one minimizing iteration once the recursive call returned r.
AP_min_child(r, prune, moves, i, depth, alpha, beta, min_eval) ==
  LET c2 == [r.ctx EXCEPT !.board = Pop(@)]
      min2 == Min(min_eval, r.score)
      beta2 == Min(beta, r.score)
      c3 == Folded(c2, depth, alpha, beta2, FALSE, r.score, min2)
  IN IF prune /\ AP_cutoff(alpha, beta2)
     THEN [score |-> min2, ctx |-> c3]
     ELSE AP_min(c3, moves, i + 1, depth, alpha, beta2, min2)

AP_min(ctx, moves, i, depth, alpha, beta, min_eval) ==
  IF i > Len(moves) THEN [score |-> min_eval, ctx |-> ctx]
  ELSE AP_min_child(AP_minimax([ctx EXCEPT !.board = Push(@, moves[i])],
                               depth - 1, alpha, beta, TRUE),
                    ctx.prune, moves, i, depth, alpha, beta, min_eval)

RECURSIVE AP_root(_, _, _, _, _, _, _)

\* The rest of one root iteration for White once the search returned r.
AP_root_white(r, moves, i, alpha, beta, best_value, best_move) ==
  AP_root([Rooted(r.ctx, r.score, TRUE) EXCEPT !.board = Pop(@)],
          moves, i + 1,
          Max(alpha, r.score), beta,
          IF r.score > best_value THEN r.score ELSE best_value,
          IF r.score > best_value THEN moves[i] ELSE best_move)

\* The rest of one root iteration for Black once the search returned r.
AP_root_black(r, moves, i, alpha, beta, best_value, best_move) ==
  AP_root([Rooted(r.ctx, r.score, FALSE) EXCEPT !.board = Pop(@)],
          moves, i + 1,
          alpha, Min(beta, r.score),
          IF r.score < best_value THEN r.score ELSE best_value,
          IF r.score < best_value THEN moves[i] ELSE best_move)

AP_root(ctx, moves, i, alpha, beta, best_value, best_move) ==
  IF i > Len(moves)
  THEN [move |-> best_move, score |-> best_value, ctx |-> ctx]
  ELSE IF Push(ctx.board, moves[i]).turn = BLACK
  THEN AP_root_white(AP_minimax([ctx EXCEPT !.board = Push(@, moves[i])],
                                ctx.self.depth - 1, alpha, beta, FALSE),
                     moves, i, alpha, beta, best_value, best_move)
  ELSE AP_root_black(AP_minimax([ctx EXCEPT !.board = Push(@, moves[i])],
                                ctx.self.depth - 1, alpha, beta, TRUE),
                     moves, i, alpha, beta, best_value, best_move)

\* The root loop over the ordered moves o.
AP_root_search(ctx, o) ==
  AP_root([ctx EXCEPT !.board = o.board], o.moves, 1, -Inf, Inf,
          IF o.board.turn = WHITE THEN -Inf ELSE Inf, None)

AP_get_best_move(ctx) ==
  IF LegalMoves(ctx.board) = <<>>
  THEN [move |-> None, score |-> 0, ctx |-> [ctx EXCEPT !.self.nodes = 0]]
  ELSE AP_root_search([ctx EXCEPT !.self.nodes = 0],
                      AP_order_moves(ctx.board, LegalMoves(ctx.board)))

(***************************************************************************)
(* PositionalPlayer (explicit max/min, White-positive, infinite mate)      *)
(***************************************************************************)
\* The mobility count that leaves the board with Black to move.
PP_evaluate_mobility_unrestored(b) == [b EXCEPT !.turn = BLACK]

PP_evaluate_mobility(b) ==
  LET original_turn == b.turn
      b1 == [b EXCEPT !.turn = WHITE]
      b2 == [b1 EXCEPT !.turn = BLACK]
  IN [b2 EXCEPT !.turn = original_turn]

PP_evaluate_position(b) ==
  IF IsCheckmate(b)
  THEN [score |-> IF b.turn = WHITE THEN -Inf ELSE Inf, board |-> b]
  ELSE IF IsStalemate(b) \/ IsInsufficientMaterial(b)
  THEN [score |-> 0, board |-> b]
  ELSE IF CanClaimDraw(b) THEN [score |-> 0, board |-> b]
  ELSE [score |-> Features(b), board |-> PP_evaluate_mobility(b)]

PP_move_score(b, move) ==
  LET k == MoveKinds[move.kind]
      cap == IF k.capture /\ k.victim # NoPiece /\ k.piece # NoPiece
             THEN 10000 + PIECE_VALUES[k.victim]
                        - (PIECE_VALUES[k.piece] \div 10)
             ELSE 0
      b1 == Push(b, move)
      chk == IF IsCheck(b1) THEN 5000 ELSE 0
      b2 == Pop(b1)
      castle == IF k.castling THEN 4000 ELSE 0
      ctr == IF k.center = 1 THEN 100 ELSE IF k.center = 2 THEN 50 ELSE 0
      promo == IF k.promotion # NoPiece
               THEN 8000 + PIECE_VALUES[k.promotion] ELSE 0
  IN [score |-> cap + chk + castle + ctr + promo, board |-> b2]

\* One pass over the candidate moves, each key computed on the board the
\* previous candidate's scoring left behind, then the stable sort.
PP_score_next(prev, move) == Keyed(prev, PP_move_score(prev.board, move))

PP_order_moves(b, moves) ==
  LET scored[i \in 0..Len(moves)] ==
        IF i = 0 THEN [board |-> b, keys |-> <<>>]
        ELSE PP_score_next(scored[i - 1], moves[i])
  IN Sorted(moves, scored[Len(moves)])

\* The cutoff test that lets bounds that have just met go on.
PP_cutoff_strict(alpha, beta) == beta < alpha

PP_cutoff(alpha, beta) == beta <= alpha

RECURSIVE PP_minimax(_, _, _, _, _), PP_max(_, _, _, _, _, _, _),
          PP_min(_, _, _, _, _, _, _)

\* The loop over the ordered moves o of one minimax frame.
PP_search(ctx, o, depth, alpha, beta, maximizing) ==
  IF maximizing
  THEN PP_max([ctx EXCEPT !.board = o.board], o.moves, 1, depth, alpha, beta,
              -Inf)
  ELSE PP_min([ctx EXCEPT !.board = o.board], o.moves, 1, depth, alpha, beta,
              Inf)

PP_minimax(ctx, depth, alpha, beta, maximizing) ==
  LET c == Entered(ctx, depth, alpha, beta, maximizing)
  IN
  IF depth = 0 \/ IsGameOver(c.board)
  THEN Leaf([c EXCEPT !.self.nodes = @ + 1],
            PP_evaluate_position(c.board))
  ELSE PP_search([c EXCEPT !.self.nodes = @ + 1],
                 PP_order_moves(c.board, LegalMoves(c.board)),
                 depth, alpha, beta, maximizing)

\* The rest of one maximizing iteration once the recursive call returned r.
PP_max_child(r, prune, moves, i, depth, alpha, beta, max_eval) ==
  LET c2 == [r.ctx EXCEPT !.board = Pop(@)]
      max2 == Max(max_eval, r.score)
      alpha2 == Max(alpha, r.score)
      c3 == Folded(c2, depth, alpha2, beta, TRUE, r.score, max2)
  IN IF prune /\ PP_cutoff(alpha2, beta)
     THEN [score |-> max2, ctx |-> c3]
     ELSE PP_max(c3, moves, i + 1, depth, alpha2, beta, max2)

PP_max(ctx, moves, i, depth, alpha, beta, max_eval) ==
  IF i > Len(moves) THEN [score |-> max_eval, ctx |-> ctx]
  ELSE PP_max_child(PP_minimax([ctx EXCEPT !.board = Push(@, moves[i])],
                               depth - 1, alpha, beta, FALSE),
                    ctx.prune, moves, i, depth, alpha, beta, max_eval)

\* The rest of one minimizing iteration once the recursive call returned r.
PP_min_child(r, prune, moves, i, depth, alpha, beta, min_eval) ==
  LET c2 == [r.ctx EXCEPT !.board = Pop(@)]
      min2 == Min(min_eval, r.score)
      beta2 == Min(beta, r.score)
      c3 == Folded(c2, depth, alpha, beta2, FALSE, r.score, min2)
  IN IF prune /\ PP_cutoff(alpha, beta2)
     THEN [score |-> min2, ctx |-> c3]
     ELSE PP_min(c3, moves, i + 1, depth, alpha, beta2, min2)

PP_min(ctx, moves, i, depth, alpha, beta, min_eval) ==
  IF i > Len(moves) THEN [score |-> min_eval, ctx |-> ctx]
  ELSE PP_min_child(PP_minimax([ctx EXCEPT !.board = Push(@, moves[i])],
                               depth - 1, alpha, beta, TRUE),
                    ctx.prune, moves, i, depth, alpha, beta, min_eval)

RECURSIVE PP_root(_, _, _, _, _, _, _)

\* The rest of one root iteration for White once the search returned r.
PP_root_white(r, moves, i, alpha, beta, best_value, best_move) ==
  PP_root([Rooted(r.ctx, r.score, TRUE) EXCEPT !.board = Pop(@)],
          moves, i + 1,
          Max(alpha, r.score), beta,
          IF r.score > best_value THEN r.score ELSE best_value,
          IF r.score > best_value THEN moves[i] ELSE best_move)

\* The rest of one root iteration for Black once the search returned r.
PP_root_black(r, moves, i, alpha, beta, best_value, best_move) ==
  PP_root([Rooted(r.ctx, r.score, FALSE) EXCEPT !.board = Pop(@)],
          moves, i + 1,
          alpha, Min(beta, r.score),
          IF r.score < best_value THEN r.score ELSE best_value,
          IF r.score < best_value THEN moves[i] ELSE best_move)

PP_root(ctx, moves, i, alpha, beta, best_value, best_move) ==
  IF i > Len(moves)
  THEN [move |-> best_move, score |-> best_value, ctx |-> ctx]
  ELSE IF Push(ctx.board, moves[i]).turn = BLACK
  THEN PP_root_white(PP_minimax([ctx EXCEPT !.board = Push(@, moves[i])],
                                ctx.self.depth - 1, alpha, beta, FALSE),
                     moves, i, alpha, beta, best_value, best_move)
  ELSE PP_root_black(PP_minimax([ctx EXCEPT !.board = Push(@, moves[i])],
                                ctx.self.depth - 1, alpha, beta, TRUE),
                     moves, i, alpha, beta, best_value, best_move)

\* The root loop over the ordered moves o.
PP_root_search(ctx, o) ==
  PP_root([ctx EXCEPT !.board = o.board], o.moves, 1, -Inf, Inf,
          IF o.board.turn = WHITE THEN -Inf ELSE Inf, None)

PP_get_best_move(ctx) ==
  IF IsGameOver(ctx.board) \/ LegalMoves(ctx.board) = <<>>
  THEN [move |-> None, score |-> 0, ctx |-> [ctx EXCEPT !.self.nodes = 0]]
  ELSE PP_root_search([ctx EXCEPT !.self.nodes = 0],
                      PP_order_moves(ctx.board, LegalMoves(ctx.board)))

(***************************************************************************)
(* PositionalDefender (explicit max/min with a transposition table)        *)
(***************************************************************************)
PD_MATE == 20000

EmptyTable == [k \in {} |-> <<0, 0>>]

PD_evaluate_position(b) ==
  IF IsCheckmate(b)
  THEN [score |-> IF b.turn = WHITE THEN -PD_MATE ELSE PD_MATE, board |-> b]
  ELSE IF IsStalemate(b) \/ IsInsufficientMaterial(b)
  THEN [score |-> 0, board |-> b]
  ELSE [score |-> Features(b), board |-> b]

\* The ordering key computed without taking the candidate move back.
PD_move_priority_unpopped(b, move) ==
  LET k == MoveKinds[move.kind]
      cap == IF k.capture /\ k.victim # NoPiece /\ k.piece # NoPiece
             THEN 10 * PIECE_VALUES[k.victim] - PIECE_VALUES[k.piece]
             ELSE 0
      b1 == Push(b, move)
      chk == IF IsCheck(b1) THEN 500 ELSE 0
      castle == IF k.castling THEN 800 ELSE 0
      far == IF k.away THEN -50 ELSE 0
  IN [score |-> cap + chk + castle + k.centerBonus + far, board |-> b1]

PD_move_priority(b, move) ==
  LET k == MoveKinds[move.kind]
      cap == IF k.capture /\ k.victim # NoPiece /\ k.piece # NoPiece
             THEN 10 * PIECE_VALUES[k.victim] - PIECE_VALUES[k.piece]
             ELSE 0
      b1 == Push(b, move)
      chk == IF IsCheck(b1) THEN 500 ELSE 0
      b2 == Pop(b1)
      castle == IF k.castling THEN 800 ELSE 0
      far == IF k.away THEN -50 ELSE 0
  IN [score |-> cap + chk + castle + k.centerBonus + far, board |-> b2]

\* One pass over the candidate moves, each key computed on the board the
\* previous candidate's scoring left behind, then the stable sort.
PD_priority_next(prev, move) ==
  Keyed(prev, PD_move_priority(prev.board, move))

PD_order_moves(b, moves) ==
  LET scored[i \in 0..Len(moves)] ==
        IF i = 0 THEN [board |-> b, keys |-> <<>>]
        ELSE PD_priority_next(scored[i - 1], moves[i])
  IN Sorted(moves, scored[Len(moves)])

PD_cutoff(alpha, beta) == beta <= alpha

\* The table lookup that serves an entry of any depth.
PD_cached_any_depth(ctx, depth) ==
  ctx.table /\ Fen(ctx.board) \in DOMAIN ctx.self.tt

\* The table lookup at the head of _minimax.
PD_cached(ctx, depth) ==
  LET board_hash == Fen(ctx.board)
  IN /\ ctx.table
     /\ board_hash \in DOMAIN ctx.self.tt
     /\ ctx.self.tt[board_hash][1] >= depth

\* The table write that records every entry as searched to depth 0.
PD_store_shallow(ctx, board_hash, depth, score) ==
  IF ctx.table
  THEN [ctx EXCEPT !.self.tt = (board_hash :> <<0, score>>) @@ @]
  ELSE ctx

PD_store(ctx, board_hash, depth, score) ==
  IF ctx.table
  THEN [ctx EXCEPT !.self.tt = (board_hash :> <<depth, score>>) @@ @]
  ELSE ctx

RECURSIVE PD_minimax(_, _, _, _, _), PD_max(_, _, _, _, _, _, _),
          PD_min(_, _, _, _, _, _, _)

\* A frame that stores and returns the static evaluation e.
PD_leaf(ctx, e, board_hash, depth) ==
  [score |-> e.score,
   ctx |-> PD_store([ctx EXCEPT !.board = e.board], board_hash, depth,
                    e.score)]

\* The loop over the ordered moves o of one _minimax frame.
PD_search(ctx, o, depth, alpha, beta, maximizing) ==
  IF maximizing
  THEN PD_max([ctx EXCEPT !.board = o.board], o.moves, 1, depth, alpha, beta,
              -Inf)
  ELSE PD_min([ctx EXCEPT !.board = o.board], o.moves, 1, depth, alpha, beta,
              Inf)

\* A frame that stores and returns the result r of its loop.
PD_searched(r, board_hash, depth) ==
  [score |-> r.score, ctx |-> PD_store(r.ctx, board_hash, depth, r.score)]

\* One _minimax frame, without the record of what it did to the table.
PD_frame(ctx, depth, alpha, beta, maximizing) ==
  IF PD_cached(ctx, depth)
  THEN [score |-> ctx.self.tt[Fen(ctx.board)][2], ctx |-> ctx]
  ELSE IF depth = 0 \/ IsGameOver(ctx.board)
  THEN PD_leaf(ctx, PD_evaluate_position(ctx.board), Fen(ctx.board), depth)
  ELSE PD_searched(PD_search(ctx,
                             PD_order_moves(ctx.board, LegalMoves(ctx.board)),
                             depth, alpha, beta, maximizing),
                   Fen(ctx.board), depth)

\* The result r of a frame that found an entry for its position, with one
\* record added: the call's arguments, the entry found, whether it was
\* served, the score returned and the entry the frame left behind.
PD_logged(r, ctx, depth, alpha, beta, maximizing) ==
  [r EXCEPT !.ctx.log = @ \cup
     {[key |-> Fen(ctx.board), found |-> ctx.self.tt[Fen(ctx.board)],
       board |-> Fresh(ctx.board), depth |-> depth, alpha |-> alpha,
       beta |-> beta, maximizing |-> maximizing,
       served |-> PD_cached(ctx, depth),
       score |-> r.score, left |-> r.ctx.self.tt[Fen(ctx.board)]]}]

PD_minimax(ctx, depth, alpha, beta, maximizing) ==
  LET c == Entered(ctx, depth, alpha, beta, maximizing)
  IN
  IF c.table /\ Fen(c.board) \in DOMAIN c.self.tt
  THEN PD_logged(PD_frame(c, depth, alpha, beta, maximizing),
                 c, depth, alpha, beta, maximizing)
  ELSE PD_frame(c, depth, alpha, beta, maximizing)

\* The rest of one maximizing iteration once the recursive call returned r.
PD_max_child(r, prune, moves, i, depth, alpha, beta, max_eval) ==
  LET c2 == [r.ctx EXCEPT !.board = Pop(@)]
      max2 == Max(max_eval, r.score)
      alpha2 == Max(alpha, r.score)
      c3 == Folded(c2, depth, alpha2, beta, TRUE, r.score, max2)
  IN IF prune /\ PD_cutoff(alpha2, beta)
     THEN [score |-> max2, ctx |-> c3]
     ELSE PD_max(c3, moves, i + 1, depth, alpha2, beta, max2)

PD_max(ctx, moves, i, depth, alpha, beta, max_eval) ==
  IF i > Len(moves) THEN [score |-> max_eval, ctx |-> ctx]
  ELSE PD_max_child(PD_minimax([ctx EXCEPT !.board = Push(@, moves[i])],
                               depth - 1, alpha, beta, FALSE),
                    ctx.prune, moves, i, depth, alpha, beta, max_eval)

\* The rest of one minimizing iteration once the recursive call returned r.
PD_min_child(r, prune, moves, i, depth, alpha, beta, min_eval) ==
  LET c2 == [r.ctx EXCEPT !.board = Pop(@)]
      min2 == Min(min_eval, r.score)
      beta2 == Min(beta, r.score)
      c3 == Folded(c2, depth, alpha, beta2, FALSE, r.score, min2)
  IN IF prune /\ PD_cutoff(alpha, beta2)
     THEN [score |-> min2, ctx |-> c3]
     ELSE PD_min(c3, moves, i + 1, depth, alpha, beta2, min2)

PD_min(ctx, moves, i, depth, alpha, beta, min_eval) ==
  IF i > Len(moves) THEN [score |-> min_eval, ctx |-> ctx]
  ELSE PD_min_child(PD_minimax([ctx EXCEPT !.board = Push(@, moves[i])],
                               depth - 1, alpha, beta, TRUE),
                    ctx.prune, moves, i, depth, alpha, beta, min_eval)

RECURSIVE PD_root(_, _, _, _, _)

\* The rest of one root iteration once the search returned r.
PD_root_child(r, moves, i, best_score, best_move) ==
  LET c2 == [Rooted(r.ctx, r.score, r.ctx.board.turn = BLACK)
               EXCEPT !.board = Pop(@)]
      better == IF c2.board.turn = WHITE
                THEN r.score > best_score ELSE r.score < best_score
  IN PD_root(c2, moves, i + 1,
             IF better THEN r.score ELSE best_score,
             IF better THEN moves[i] ELSE best_move)

PD_root(ctx, moves, i, best_score, best_move) ==
  IF i > Len(moves)
  THEN [move |-> best_move, score |-> best_score, ctx |-> ctx]
  ELSE PD_root_child(PD_minimax([ctx EXCEPT !.board = Push(@, moves[i])],
                                ctx.self.depth - 1, -Inf, Inf,
                                ~Push(ctx.board, moves[i]).turn),
                     moves, i, best_score, best_move)

\* The root loop over the ordered moves o.
PD_root_search(ctx, o, best_score, best_move) ==
  PD_root([ctx EXCEPT !.board = o.board], o.moves, 1, best_score, best_move)

PD_get_best_move(ctx) ==
  IF IsGameOver(ctx.board) \/ LegalMoves(ctx.board) = <<>>
  THEN [move |-> None, score |-> 0, ctx |-> ctx]
  ELSE PD_root_search(ctx, PD_order_moves(ctx.board, LegalMoves(ctx.board)),
                      IF ctx.board.turn = WHITE THEN -Inf ELSE Inf,
                      LegalMoves(ctx.board)[1])

(***************************************************************************)
(* AggressiveAttacker (explicit max/min over a side-to-move evaluator)     *)
(***************************************************************************)
AA_DEPTH == 3
AA_AGGRESSION_NUM == 3
AA_AGGRESSION_DEN == 2
AA_OPENING_MOVES == 10
AA_DEVELOPMENT_MOVES == 20

Aggr(x) == (x * AA_AGGRESSION_NUM) \div AA_AGGRESSION_DEN

\* _evaluate_development: the White-positive development term.
Development(b) == game.pos[Placement(b)].dev

AA_evaluate_mobility(b) == Pop(Push(b, NullMove))

AA_evaluate_position(self, b) ==
  IF IsCheckmate(b) THEN [score |-> -Inf, board |-> b]
  ELSE IF IsStalemate(b) \/ IsInsufficientMaterial(b)
  THEN [score |-> 0, board |-> b]
  ELSE LET b1 == AA_evaluate_mobility(b)
           score == Features(b)
                    + (IF Len(self.history) < AA_DEVELOPMENT_MOVES
                       THEN Development(b1) ELSE 0)
       IN [score |-> IF b1.turn = WHITE THEN score ELSE -score, board |-> b1]

AA_move_score(self, b, move) ==
  LET k == MoveKinds[move.kind]
      b1 == Push(b, move)
      chk == IF IsCheckmate(b1) THEN 100000
             ELSE IF IsCheck(b1) THEN Aggr(5000) ELSE 0
      b2 == Pop(b1)
      cap == IF k.capture /\ k.victim # NoPiece /\ k.piece # NoPiece
             THEN Aggr(AA_PIECE_VALUES[k.victim] * 10 - AA_PIECE_VALUES[k.piece])
             ELSE 0
      hunt == IF k.approach > 0 THEN Aggr(k.approach * 50) ELSE 0
      ctr == IF k.center = 1 THEN 100 ELSE 0
      dev == IF Len(self.history) < AA_OPENING_MOVES
                /\ k.piece \in {KNIGHT, BISHOP} /\ k.fromHome
             THEN 150 ELSE 0
  IN [score |-> chk + cap + hunt + ctr + dev, board |-> b2]

\* One pass over the candidate moves, each key computed on the board the
\* previous candidate's scoring left behind, then the stable sort.
AA_score_next(self, prev, move) ==
  Keyed(prev, AA_move_score(self, prev.board, move))

AA_order_moves(self, b, moves) ==
  LET scored[i \in 0..Len(moves)] ==
        IF i = 0 THEN [board |-> b, keys |-> <<>>]
        ELSE AA_score_next(self, scored[i - 1], moves[i])
  IN Sorted(moves, scored[Len(moves)])

AA_cutoff(alpha, beta) == beta <= alpha

RECURSIVE AA_alpha_beta(_, _, _, _, _), AA_max(_, _, _, _, _, _, _),
          AA_min(_, _, _, _, _, _, _)

\* The loop over the ordered moves o of one _alpha_beta frame.
AA_search(ctx, o, depth, alpha, beta, maximizing) ==
  IF maximizing
  THEN AA_max([ctx EXCEPT !.board = o.board], o.moves, 1, depth, alpha, beta,
              -Inf)
  ELSE AA_min([ctx EXCEPT !.board = o.board], o.moves, 1, depth, alpha, beta,
              Inf)

AA_alpha_beta(ctx, depth, alpha, beta, maximizing) ==
  LET c == Entered(ctx, depth, alpha, beta, maximizing)
  IN
  IF IsCheckmate(c.board)
  THEN [score |-> IF maximizing THEN -Inf ELSE Inf, ctx |-> c]
  ELSE IF IsStalemate(c.board) \/ IsInsufficientMaterial(c.board)
  THEN [score |-> 0, ctx |-> c]
  ELSE IF depth = 0
  THEN Leaf(c, AA_evaluate_position(c.self, c.board))
  ELSE AA_search(c,
                 AA_order_moves(c.self, c.board, LegalMoves(c.board)),
                 depth, alpha, beta, maximizing)

\* The rest of one maximizing iteration once the recursive call returned r.
AA_max_child(r, prune, moves, i, depth, alpha, beta, max_eval) ==
  LET c2 == [r.ctx EXCEPT !.board = Pop(@)]
      max2 == Max(max_eval, r.score)
      alpha2 == Max(alpha, r.score)
      c3 == Folded(c2, depth, alpha2, beta, TRUE, r.score, max2)
  IN IF prune /\ AA_cutoff(alpha2, beta)
     THEN [score |-> max2, ctx |-> c3]
     ELSE AA_max(c3, moves, i + 1, depth, alpha2, beta, max2)

AA_max(ctx, moves, i, depth, alpha, beta, max_eval) ==
  IF i > Len(moves) THEN [score |-> max_eval, ctx |-> ctx]
  ELSE AA_max_child(AA_alpha_beta([ctx EXCEPT !.board = Push(@, moves[i])],
                                  depth - 1, alpha, beta, FALSE),
                    ctx.prune, moves, i, depth, alpha, beta, max_eval)

\* The rest of one minimizing iteration once the recursive call returned r.
AA_min_child(r, prune, moves, i, depth, alpha, beta, min_eval) ==
  LET c2 == [r.ctx EXCEPT !.board = Pop(@)]
      min2 == Min(min_eval, r.score)
      beta2 == Min(beta, r.score)
      c3 == Folded(c2, depth, alpha, beta2, FALSE, r.score, min2)
  IN IF prune /\ AA_cutoff(alpha, beta2)
     THEN [score |-> min2, ctx |-> c3]
     ELSE AA_min(c3, moves, i + 1, depth, alpha, beta2, min2)

AA_min(ctx, moves, i, depth, alpha, beta, min_eval) ==
  IF i > Len(moves) THEN [score |-> min_eval, ctx |-> ctx]
  ELSE AA_min_child(AA_alpha_beta([ctx EXCEPT !.board = Push(@, moves[i])],
                                  depth - 1, alpha, beta, TRUE),
                    ctx.prune, moves, i, depth, alpha, beta, min_eval)

RECURSIVE AA_root(_, _, _, _, _)

\* The rest of one root iteration once the search returned r.
AA_root_child(r, moves, i, best_score, best_move) ==
  LET score == -r.score
      better == score > best_score
  IN AA_root([Rooted(r.ctx, score, TRUE) EXCEPT !.board = Pop(@)],
             moves, i + 1,
             IF better THEN score ELSE best_score,
             IF better THEN moves[i] ELSE best_move)

AA_root(ctx, moves, i, best_score, best_move) ==
  IF i > Len(moves)
  THEN [move |-> best_move, score |-> best_score, ctx |-> ctx]
  ELSE AA_root_child(AA_alpha_beta([ctx EXCEPT !.board = Push(@, moves[i])],
                                   AA_DEPTH, -Inf, Inf, FALSE),
                     moves, i, best_score, best_move)

\* The root loop over the ordered moves o.
AA_root_search(ctx, o) ==
  AA_root([ctx EXCEPT !.board = o.board], o.moves, 1, -Inf, None)

\* The end of get_best_move that records whatever it is about to return.
AA_record_unguarded(r) ==
  [r EXCEPT !.ctx.self.history = Append(@, r.move)]

\* The end of get_best_move: the chosen move goes on the move history.
AA_record(r) ==
  IF r.move # None
  THEN [r EXCEPT !.ctx.self.history = Append(@, r.move)]
  ELSE r

AA_get_best_move(ctx) ==
  IF LegalMoves(ctx.board) = <<>>
  THEN [move |-> None, score |-> -Inf, ctx |-> ctx]
  ELSE AA_record(AA_root_search(ctx,
         AA_order_moves(ctx.self, ctx.board, LegalMoves(ctx.board))))

\* reset(): the move history is cleared.
AA_reset(self) == [self EXCEPT !.history = <<>>]

(***************************************************************************)
(* Games the players are exercised on                                      *)
(***************************************************************************)
Mv(t, k) == [tgt |-> t, kind |-> k]

TwoQuiet == [cls |-> "ongoing", chk |-> FALSE,
             moves |-> <<Mv(1, "quiet"), Mv(2, "quiet")>>]
QuietTakes == [cls |-> "ongoing", chk |-> FALSE,
               moves |-> <<Mv(1, "quiet"), Mv(2, "takes")>>]
TakesQuiet == [cls |-> "ongoing", chk |-> FALSE,
               moves |-> <<Mv(1, "takes"), Mv(2, "quiet")>>]
QuietDevelop == [cls |-> "ongoing", chk |-> FALSE,
                 moves |-> <<Mv(1, "quiet"), Mv(2, "develop")>>]
OneQuiet == [cls |-> "ongoing", chk |-> FALSE, moves |-> <<Mv(1, "quiet")>>]
OneMove == [cls |-> "ongoing", chk |-> FALSE, moves |-> <<Mv(2, "quiet")>>]
Mate == [cls |-> "checkmate", chk |-> TRUE, moves |-> <<>>]
Stale == [cls |-> "stalemate", chk |-> FALSE, moves |-> <<>>]
Drawn(c) == IF c = "stalemate" THEN Stale
            ELSE [cls |-> c, chk |-> FALSE,
                  moves |-> <<Mv(1, "quiet"), Mv(2, "quiet")>>]

WithH(sk, hs) == [p \in Pos |-> [cls |-> sk[p].cls, chk |-> sk[p].chk,
                                  moves |-> sk[p].moves, h |-> hs[p],
                                  dev |-> IF sk[p] = QuietDevelop
                                          THEN -30 ELSE 0]]

HVals == (-HMax)..HMax

\* Two structures with transpositions; the heuristic totals are free.
ValueGames ==
  LET sk(third) ==
        [p \in Pos |-> CASE p = 1 -> QuietDevelop [] p = 2 -> QuietTakes
                          [] p = 3 -> third [] OTHER -> TwoQuiet]
  IN {WithH(sk(third), hs) : third \in {TwoQuiet, OneQuiet},
                             hs \in {f \in [Pos -> HVals] : f[NPos] = 0}}

\* Free structure with checkmates and stalemates.
TerminalGames ==
  LET hs == [p \in Pos |-> IF p = 3 THEN 1 ELSE 0]
  IN {WithH(sk, hs) :
        sk \in {f \in [Pos -> {TakesQuiet, OneMove, Mate}] :
                  f[1] # OneMove /\ f[NPos] # OneMove}}

\* One position is a draw by rule while moves are still legal.
DrawGames ==
  {WithH([p \in Pos |-> IF p = d THEN Drawn(c) ELSE TwoQuiet],
         [p \in Pos |-> IF p = d THEN v ELSE 0]) :
     d \in 1..2,
     c \in {"stalemate", "insufficient", "claimable", "seventyfive"},
     v \in {-1, 1}}

Games == ValueGames \cup TerminalGames \cup DrawGames

\* A rules engine that breaks its contract: it reports no legal move on a
\* position it does not classify as game over.
Dead == [cls |-> "ongoing", chk |-> FALSE, moves |-> <<>>]

BrokenGames ==
  {WithH(sk, [p \in Pos |-> IF p = 2 THEN 1 ELSE IF p = 3 THEN -1 ELSE 0]) :
     sk \in {f \in [Pos -> {TwoQuiet, Dead}] : \E p \in Pos : f[p] = Dead}}

\* Positions with three legal moves: two quiet moves of equal ordering key
\* ahead of a capture.
QuietQuietTakes == [cls |-> "ongoing", chk |-> FALSE,
                    moves |-> <<Mv(1, "quiet"), Mv(2, "quiet"),
                                Mv(2, "takes")>>]

WideGames ==
  {WithH([p \in Pos |-> IF p = w THEN QuietQuietTakes ELSE third],
         [p \in Pos |-> 0]) :
     w \in 1..2, third \in {TwoQuiet, Mate}}

\* Five moves to one square that differ in the capturing piece, the
\* captured piece and whether they capture at all; the square gives check
\* or not.
Captures == [cls |-> "ongoing", chk |-> FALSE,
             moves |-> <<Mv(1, "advance"), Mv(1, "enPassant"),
                         Mv(1, "queenTakes"), Mv(1, "takesPawn"),
                         Mv(1, "takes")>>]

CaptureGames ==
  {WithH([p \in Pos |-> IF p = 1 THEN Captures
                        ELSE IF p = 2 THEN [TwoQuiet EXCEPT !.chk = c]
                        ELSE TwoQuiet],
         [p \in Pos |-> 0]) : c \in BOOLEAN}

\* The positions the recursive search is called on directly.
SearchGames == BrokenGames \cup DrawGames

(***************************************************************************)
(* What the evaluators read from a position                                *)
(***************************************************************************)
\* The men of one colour, by piece type.
Bare == [k \in 1..6 |-> IF k = KING THEN 1 ELSE 0]

\* The starting army after n of its pawns have promoted to queens.
Promoted(n) ==
  [k \in 1..6 |-> CASE k = PAWN -> 8 - n [] k = QUEEN -> 1 + n
                    [] k = KING -> 1 [] OTHER -> 2]

Armies == {Bare} \cup {Promoted(n) : n \in {0, 4, 8}}

Men(a) == a[PAWN] + a[KNIGHT] + a[BISHOP] + a[ROOK] + a[QUEEN] + a[KING]

\* sum over the piece types of weight[k] * count[k]
Weighted(weight, count) ==
  weight[PAWN] * count[PAWN] + weight[KNIGHT] * count[KNIGHT]
    + weight[BISHOP] * count[BISHOP] + weight[ROOK] * count[ROOK]
    + weight[QUEEN] * count[QUEEN] + weight[KING] * count[KING]

NoMen == [k \in 1..6 |-> 0]

\* The army a direction favours (1 White, -1 Black, 0 neither) and the army
\* it goes against.
For(d, w, b) == IF d = 1 THEN w ELSE IF d = -1 THEN b ELSE NoMen
Against(d, w, b) == IF d = 1 THEN b ELSE IF d = -1 THEN w ELSE NoMen

Directions == {-1, 0, 1}

\* The facts of a position with armies w and b in which the attacks (att),
\* the placement (pos) and the mobility (mob) each favour one side as far
\* as the board allows.  Counts are White minus Black unless a field names
\* the colour; every man of the favoured side attacks every square counted.
Observe(w, b, att, pos, mob) ==
  [white |-> w, black |-> b,
   \* occupied centre and extended-centre squares
   center_occ |-> pos * Min(4, Men(For(pos, w, b))),
   ext_occ |-> pos * Min(12, Men(For(pos, w, b))),
   \* attackers summed over the 4 centre and the 12 extended-centre squares
   center_att |-> att * 4 * Men(For(att, w, b)),
   ext_att |-> att * 12 * Men(For(att, w, b)),
   \* attackers summed over the 9 squares of the other king's zone
   zone |-> att * 9 * Men(For(att, w, b)),
   \* attacks on the other side's men: rooks and queens, and the rest
   attacked_heavy |-> att * Men(For(att, w, b))
                        * (Against(att, w, b)[ROOK] + Against(att, w, b)[QUEEN]),
   attacked_light |-> att * Men(For(att, w, b))
                        * (Men(Against(att, w, b)) - Against(att, w, b)[ROOK]
                             - Against(att, w, b)[QUEEN]),
   \* men attacked and not defended at all
   hanging_white |-> IF att = -1 THEN w ELSE NoMen,
   hanging_black |-> IF att = 1 THEN b ELSE NoMen,
   \* men standing as well, and as badly, as their tables allow
   well_placed |-> For(pos, w, b),
   badly_placed |-> Against(pos, w, b),
   placed |-> pos,
   \* legal moves of White minus legal moves of Black
   mobility |-> mob * MaxMobility,
   \* moves of each side that give check, and moves of each side that
   \* capture a man of the other, by the type of the man taken
   checks_white |-> IF mob = 1 THEN MaxMobility ELSE 0,
   checks_black |-> IF mob = -1 THEN MaxMobility ELSE 0,
   captures_white |-> IF mob = 1
                      THEN [k \in 1..6 |-> IF k = KING THEN 0
                                            ELSE b[k] * Men(w)]
                      ELSE NoMen,
   captures_black |-> IF mob = -1
                      THEN [k \in 1..6 |-> IF k = KING THEN 0
                                            ELSE w[k] * Men(b)]
                      ELSE NoMen,
   \* men giving check when the side to move is in check
   checkers |-> MaxCheckers]

Observations ==
  {Observe(w, b, att, pos, mob) :
     w \in Armies, b \in Armies, att \in Directions, pos \in Directions,
     mob \in Directions}

\* x * 1.5 and x * 0.5, x * 0.2 on the values the observations take (exact).
Half(x) == x \div 2
Fifth(x) == x \div 5
OneAndHalf(x) == (3 * x) \div 2

\* _evaluate_material (the same in every variant but AggressiveAttacker).
evaluate_material(o) ==
  Weighted(PIECE_VALUES, [k \in 1..6 |-> o.white[k] - o.black[k]])

(***************************** AggressivePlayer ****************************)
AP_evaluate_center_control(o) ==
  30 * o.center_occ + 10 * o.ext_occ + 5 * o.center_att

AP_evaluate_king_attack(o) == 15 * o.zone

\* mobility_diff * 2, negated for Black: White's moves minus Black's.
AP_mobility_score(o) == 2 * o.mobility

AP_features(o, turn, chk) ==
  evaluate_material(o) + AP_evaluate_center_control(o)
    + AP_evaluate_king_attack(o) + AP_mobility_score(o)
    + (IF chk THEN (IF turn = WHITE THEN -50 ELSE 50) ELSE 0)

(***************************** PositionalDefender **************************)
\* The largest and the smallest entry of each piece-square table of
\* DefensiveChessPlayer and PositionalDefender (the same tables; the king
\* has a middlegame and an endgame table).
TABLE_MAX == [k \in 1..6 |->
  CASE k = 1 -> 50 [] k = 2 -> 20 [] k = 3 -> 10 [] k = 4 -> 10
    [] k = 5 -> 5 [] OTHER -> 40]
TABLE_MIN == [k \in 1..6 |->
  CASE k = 1 -> -20 [] k = 2 -> -50 [] k = 3 -> -20 [] k = 4 -> -5
    [] k = 5 -> -20 [] OTHER -> -50]

PD_evaluate_piece_squares(o) ==
  o.placed * (Weighted(TABLE_MAX, o.well_placed)
                - Weighted(TABLE_MIN, o.badly_placed))

\* One colour's king safety at its best (a full pawn shield, both castling
\* rights) and at its worst (three open files, the king in the centre).
PD_king_safe(a) == 25 * Min(3, a[PAWN]) + 20 + 15
PD_king_exposed(a) == -(3 * 30) - 40

PD_evaluate_king_safety(o) ==
  o.placed * (PD_king_safe(o.well_placed) - PD_king_exposed(o.badly_placed))

\* Every pawn of the well-placed side is passed on its seventh rank and
\* connected on both sides; every pawn of the other is isolated and doubled.
PD_evaluate_pawn_structure(o) ==
  o.placed * ((20 + 6 * 10 + 2 * 10) * o.well_placed[PAWN]
                + (20 + 15) * o.badly_placed[PAWN])

\* Doubled rooks, the bishop pair and every knight on an outpost.
PD_evaluate_piece_coordination(o) ==
  o.placed * ((IF o.well_placed[ROOK] >= 2 THEN 20 ELSE 0)
                + (IF o.well_placed[BISHOP] >= 2 THEN 30 ELSE 0)
                + 25 * o.well_placed[KNIGHT])

PD_evaluate_square_control(o) == 5 * o.center_att + 2 * o.ext_att

\* The threats of the side that is not to move: 10 for each of its moves
\* that gives check, a twentieth of the value of each man it can take; the
\* king can be taken only where the side to move is in check.
PD_threats(checks, captures, checkers) ==
  10 * checks
    + Weighted([k \in 1..6 |-> PIECE_VALUES[k] \div 20],
               [captures EXCEPT ![KING] = checkers])

PD_evaluate_prophylaxis(o, turn, chk) ==
  IF turn = WHITE
  THEN -PD_threats(o.checks_black, o.captures_black,
                   IF chk THEN o.checkers ELSE 0)
  ELSE PD_threats(o.checks_white, o.captures_white,
                  IF chk THEN o.checkers ELSE 0)

PD_features(o, turn, chk) ==
  evaluate_material(o) + PD_evaluate_piece_squares(o)
    + 2 * PD_evaluate_king_safety(o)
    + OneAndHalf(PD_evaluate_pawn_structure(o))
    + PD_evaluate_piece_coordination(o) + PD_evaluate_square_control(o)
    + PD_evaluate_prophylaxis(o, turn, chk)

(***************************** AggressiveChessPlayer ***********************)
AGGRESSIVE_POSITION_BONUS == [k \in 1..6 |->
  CASE k = 1 -> 10 [] k = 2 -> 20 [] k = 3 -> 15 [] k = 4 -> 10
    [] k = 5 -> 25 [] OTHER -> 0]

\* 10 for each attack on a man, half as much again on a rook or queen.
AC_evaluate_attacks(o, turn, chk) ==
  (IF chk THEN (IF turn = BLACK THEN 50 ELSE -50) ELSE 0)
    + 10 * o.attacked_light + OneAndHalf(10 * o.attacked_heavy)

\* Attacks on the two king zones; 10 against a side without castling
\* rights (the badly placed one).
AC_evaluate_king_safety_differential(o) == 15 * o.zone + 10 * o.placed

\* Mobility, and each well-placed man on the furthest of the four ranks in
\* the other half of the board.
AC_activity(o) ==
  5 * o.mobility
    + o.placed * Weighted([k \in 1..6 |-> 4 * AGGRESSIVE_POSITION_BONUS[k]],
                          o.well_placed)

AC_evaluate_center_control(o) ==
  30 * o.center_occ + 8 * o.center_att + 4 * o.ext_att

\* Half the value of every hanging man (a fifth where a man is attacked
\* more often than defended, which a hanging man is not).
AC_evaluate_threats_tenfold(o) ==
  Weighted([k \in 1..6 |-> 5 * PIECE_VALUES[k]], o.hanging_black)
    - Weighted([k \in 1..6 |-> 5 * PIECE_VALUES[k]], o.hanging_white)

AC_evaluate_threats(o) ==
  Weighted([k \in 1..6 |-> Half(PIECE_VALUES[k])], o.hanging_black)
    - Weighted([k \in 1..6 |-> Half(PIECE_VALUES[k])], o.hanging_white)

AC_features(o, turn, chk) ==
  evaluate_material(o) + AC_evaluate_attacks(o, turn, chk)
    + AC_evaluate_king_safety_differential(o) + AC_activity(o)
    + AC_evaluate_center_control(o) + AC_evaluate_threats(o)

(***************************** DefensiveChessPlayer ************************)
\* int(x): truncation toward zero.
Trunc(num, den) == IF num >= 0 THEN num \div den ELSE -((-num) \div den)

DC_get_piece_square_value(o) ==
  o.placed * (Weighted(TABLE_MAX, o.well_placed)
                - Weighted(TABLE_MIN, o.badly_placed))

\* One colour's king safety without the attackers of its zone: at its best
\* both castling rights and six shield pawns, at its worst three open files.
DC_king_safe(a) == 20 + 15 + 15 * Min(6, a[PAWN])
DC_king_exposed(a) == -(3 * 25)

\* white_king_safety - black_king_safety: 8 off for each attacker of a
\* square of the king's zone.
DC_evaluate_king_safety(o) ==
  o.placed * (DC_king_safe(o.well_placed) - DC_king_exposed(o.badly_placed))
    + 8 * o.zone

\* Passed on the seventh rank with a neighbour on both files, against
\* doubled and isolated.
DC_evaluate_pawn_structure(o) ==
  o.placed * ((2 * 10 + 20 + 6 * 10) * o.well_placed[PAWN]
                + (20 + 25) * o.badly_placed[PAWN])

\* Every man of the well-placed side defended by all the others, the four
\* centre squares attacked, the bishop pair, each rook on an open file;
\* every man of the other side attacked more often than defended.
DC_evaluate_piece_coordination(o) ==
  o.placed * (5 * (Men(o.well_placed) - 1) * (Men(o.well_placed) - 1)
                + 4 * 8
                + (IF o.well_placed[BISHOP] >= 2 THEN 30 ELSE 0)
                + 20 * o.well_placed[ROOK]
                + 15 * (Men(o.badly_placed) - 1))

\* The king safety weight is 2.0 before the endgame and 0.5 in it.
DC_features(o, turn, chk) ==
  evaluate_material(o) + DC_get_piece_square_value(o)
    + Trunc(2 * DC_evaluate_king_safety(o), 1)
    + Trunc(3 * DC_evaluate_pawn_structure(o), 2)
    + DC_evaluate_piece_coordination(o)
    + (IF chk THEN (IF turn = WHITE THEN -50 ELSE 50) ELSE 0)

(***************************** PositionalPlayer ****************************)
PP_evaluate_piece_positions(o) ==
  o.placed * (Weighted(TABLE_MAX, o.well_placed)
                - Weighted(TABLE_MIN, o.badly_placed))

PP_mobility_score(o) == 5 * o.mobility

\* Passed on the seventh rank and connected, against doubled and isolated.
PP_evaluate_pawn_structure(o) ==
  o.placed * ((20 + 6 * 10 + 10) * o.well_placed[PAWN]
                + (20 + 25) * o.badly_placed[PAWN])

\* The penalty for one attacker of a square next to the king, by its type.
PP_ATTACKER_PENALTY == [k \in 1..6 |->
  CASE k = 5 -> 20 [] k = 4 -> 15 [] k = 3 -> 10 [] k = 2 -> 10
    [] OTHER -> 0]

\* A castled king behind three pawns on each of the two shield ranks,
\* against a king on three open files; every man of the attacking side
\* attacks all nine squares of the other king's zone.
PP_king_safe(a) ==
  50 + 15 * Min(3, a[PAWN]) + 10 * Min(3, a[PAWN] - Min(3, a[PAWN]))
PP_king_exposed(a) == -(3 * 30)

PP_evaluate_king_safety(o) ==
  o.placed * (PP_king_safe(o.well_placed) - PP_king_exposed(o.badly_placed))
    + (IF o.zone > 0 THEN 9 * Weighted(PP_ATTACKER_PENALTY, o.white)
       ELSE IF o.zone < 0 THEN -9 * Weighted(PP_ATTACKER_PENALTY, o.black)
       ELSE 0)

\* Every knight and bishop off its starting square, both castling rights.
PP_evaluate_development(o) ==
  o.placed * (20 * (o.well_placed[KNIGHT] + o.well_placed[BISHOP]) + 10 + 5)

PP_evaluate_center_control(o) ==
  10 * o.center_att + 15 * o.center_occ + 3 * o.ext_att

\* PositionalEvaluation.total
PP_features(o, turn, chk) ==
  evaluate_material(o) + PP_evaluate_piece_positions(o)
    + PP_mobility_score(o) + PP_evaluate_pawn_structure(o)
    + PP_evaluate_king_safety(o) + PP_evaluate_development(o)
    + PP_evaluate_center_control(o)

(***************************** AggressiveAttacker **************************)
AA_TABLE_MAX == [k \in 1..6 |->
  CASE k = 1 -> 50 [] k = 2 -> 40 [] k = 3 -> 30 [] k = 4 -> 35
    [] k = 5 -> 20 [] OTHER -> 40]
AA_TABLE_MIN == [k \in 1..6 |->
  CASE k = 1 -> -10 [] k = 2 -> -50 [] k = 3 -> -40 [] k = 4 -> 0
    [] k = 5 -> -20 [] OTHER -> -60]

AA_evaluate_material(o) ==
  Weighted(AA_PIECE_VALUES, [k \in 1..6 |-> o.white[k] - o.black[k]])

AA_evaluate_piece_squares(o) ==
  o.placed * (Weighted(AA_TABLE_MAX, o.well_placed)
                - Weighted(AA_TABLE_MIN, o.badly_placed))

\* The moves of the side to move minus the moves of the other side, times
\* 5, and 20 more when the side to move has more than 30 moves.
AA_mobility_score(o, turn) ==
  LET diff == IF turn = WHITE THEN o.mobility ELSE -o.mobility
  IN 5 * diff + (IF diff > 30 THEN 20 ELSE 0)

\* Attackers of the king zones, knights, bishops, rooks and queens next to
\* the other king (3 points each), and half of the pawn shields.
AA_evaluate_king_safety(o) ==
  30 * o.zone
    + (IF o.zone > 0
       THEN 15 * 3 * (Men(o.white) - o.white[PAWN] - o.white[KING])
       ELSE IF o.zone < 0
       THEN -15 * 3 * (Men(o.black) - o.black[PAWN] - o.black[KING])
       ELSE 0)
    + o.placed * Half(10 * Min(3, o.well_placed[PAWN]))

AA_evaluate_center_control(o) ==
  15 * o.center_att + 20 * o.center_occ + 5 * o.ext_att

\* The bishop pair, rooks on open files and on one rank, queen and knight.
AA_evaluate_attack_potential(o) ==
  o.placed * ((IF o.well_placed[BISHOP] >= 2 THEN 50 ELSE 0)
                + 25 * o.well_placed[ROOK]
                + (IF o.well_placed[ROOK] = 2 THEN 15 ELSE 0)
                + (IF o.well_placed[QUEEN] >= 1 /\ o.well_placed[KNIGHT] >= 1
                   THEN 20 ELSE 0))

\* The other side's knights and bishops still on their four starting
\* squares, the well-placed side castled.
AA_evaluate_development(o) ==
  o.placed * (30 * Min(4, o.badly_placed[KNIGHT] + o.badly_placed[BISHOP])
                + 40)

\* The score before the development term and the change of sign for Black.
AA_features(o, turn, chk) ==
  AA_evaluate_material(o) + AA_evaluate_piece_squares(o)
    + Aggr(AA_mobility_score(o, turn)) + Aggr(AA_evaluate_king_safety(o))
    + AA_evaluate_center_control(o)
    + Aggr(AA_evaluate_attack_potential(o))

(***************************** games of observed positions *****************)
\* The sum of the feature terms of variant v on a position with the given
\* side to move and check flag.
features(v, o, turn, chk) ==
  CASE v = "AC" -> AC_features(o, turn, chk)
    [] v = "DC" -> DC_features(o, turn, chk)
    [] v = "AA" -> AA_features(o, turn, chk)
    [] v = "AP" -> AP_features(o, turn, chk)
    [] v = "PD" -> PD_features(o, turn, chk)
    [] v = "PP" -> PP_features(o, turn, chk)

InCheck == [cls |-> "ongoing", chk |-> TRUE,
            moves |-> <<Mv(1, "quiet"), Mv(2, "quiet")>>]

\* White to move at 1, Black in check at 2, White mated at 3, Black mated at
\* 4; every position shows the observation o to variant v's evaluator.
EvalGame(v, o) ==
  LET sk == [p \in Pos |-> CASE p = 1 -> QuietTakes [] p = 2 -> InCheck
                             [] p \in {3, 4} -> Mate [] OTHER -> Stale]
  IN [p \in Pos |->
        [cls |-> sk[p].cls, chk |-> sk[p].chk, moves |-> sk[p].moves,
         h |-> features(v, o, WhiteToMove(p), sk[p].chk),
         dev |-> IF v = "AA" THEN AA_evaluate_development(o) ELSE 0]]

(***************************************************************************)
(* Players                                                                 *)
(***************************************************************************)
Variants == {"AC", "DC", "AA", "AP", "PD", "PP"}

\* AggressiveAttacker has no configurable depth: it always searches
\* AA_DEPTH plies below each root move.
Depths(v) == IF v = "AA" THEN {AA_DEPTH + 1} ELSE 1..MaxDepth

NewPlayer(v, d) == [variant |-> v, depth |-> d, nodes |-> 0,
                    tt |-> EmptyTable, history |-> <<>>]

\* A call of the code as written: cutoffs taken, table consulted.
Ctx(b, self) == [board |-> b, self |-> self, prune |-> TRUE, table |-> TRUE,
                 log |-> {}, trace |-> <<>>]

get_best_move(ctx) ==
  CASE ctx.self.variant = "AC" -> AC_get_best_move(ctx)
    [] ctx.self.variant = "DC" -> DC_get_best_move(ctx)
    [] ctx.self.variant = "AA" -> AA_get_best_move(ctx)
    [] ctx.self.variant = "AP" -> AP_get_best_move(ctx)
    [] ctx.self.variant = "PD" -> PD_get_best_move(ctx)
    [] ctx.self.variant = "PP" -> PP_get_best_move(ctx)

\* play_turn exists on the two top-level players only.
play_turn(ctx) ==
  CASE ctx.self.variant = "AC" -> AC_play_turn(ctx)
    [] ctx.self.variant = "DC" -> DC_play_turn(ctx)

\* The recursive search of the player class; AggressiveChessPlayer's negamax
\* takes no maximizing flag.
minimax(ctx, depth, alpha, beta, maximizing) ==
  CASE ctx.self.variant = "AC" -> AC_minimax(ctx, depth, alpha, beta)
    [] ctx.self.variant = "DC" ->
         DC_minimax(ctx, depth, alpha, beta, maximizing)
    [] ctx.self.variant = "AA" ->
         AA_alpha_beta(ctx, depth, alpha, beta, maximizing)
    [] ctx.self.variant = "AP" ->
         AP_minimax(ctx, depth, alpha, beta, maximizing)
    [] ctx.self.variant = "PD" ->
         PD_minimax(ctx, depth, alpha, beta, maximizing)
    [] ctx.self.variant = "PP" ->
         PP_minimax(ctx, depth, alpha, beta, maximizing)

\* The move-ordering step of the player class.
order_moves(self, b, moves) ==
  CASE self.variant = "AC" -> AC_order_moves(b, moves)
    [] self.variant = "DC" -> DC_order_moves(b, moves)
    [] self.variant = "AA" -> AA_order_moves(self, b, moves)
    [] self.variant = "AP" -> AP_order_moves(b, moves)
    [] self.variant = "PD" -> PD_order_moves(b, moves)
    [] self.variant = "PP" -> PP_order_moves(b, moves)

\* The key the ordering computes for one move.
move_score(self, b, move) ==
  CASE self.variant = "AC" -> AC_move_score(b, move)
    [] self.variant = "DC" -> DC_move_priority(b, move)
    [] self.variant = "AA" -> AA_move_score(self, b, move)
    [] self.variant = "AP" -> AP_move_score(b, move)
    [] self.variant = "PD" -> PD_move_priority(b, move)
    [] self.variant = "PP" -> PP_move_score(b, move)

evaluate_position(ctx) ==
  CASE ctx.self.variant = "AC" -> AC_evaluate_position(ctx.board)
    [] ctx.self.variant = "DC" -> DC_evaluate_position(ctx.board)
    [] ctx.self.variant = "AA" -> AA_evaluate_position(ctx.self, ctx.board)
    [] ctx.self.variant = "AP" -> AP_evaluate_position(ctx.board)
    [] ctx.self.variant = "PD" -> PD_evaluate_position(ctx.board)
    [] ctx.self.variant = "PP" -> PP_evaluate_position(ctx.board)

Idle == [op |-> "none", move |-> None, score |-> 0,
         pre |-> <<>>, before |-> <<>>, pushes |-> 0, pops |-> 0, high |-> 0,
         log |-> {}, trace |-> <<>>, args |-> <<>>]

(***************************************************************************)
(* State machine                                                           *)
(***************************************************************************)
Init ==
  /\ \E g \in Games : game = [start |-> 1, pos |-> g]
  /\ board = NewBoard
  /\ \E v \in Variants : \E d \in Depths(v) : player = NewPlayer(v, d)
  /\ last = Idle

\* What a get_best_move call that returned r leaves behind.
Chosen(r) ==
  /\ board' = Fresh(r.ctx.board)
  /\ player' = r.ctx.self
  /\ last' = [op |-> "get_best_move", move |-> r.move, score |-> r.score,
              pre |-> board, before |-> player,
              pushes |-> r.ctx.board.pushes, pops |-> r.ctx.board.pops,
              high |-> r.ctx.board.high,
              log |-> r.ctx.log, trace |-> r.ctx.trace,
              args |-> <<>>]
  /\ UNCHANGED game

\* get_best_move on the caller's board; a player's move_history is capped.
GetBestMoveUpTo(n) ==
  /\ Len(player.history) < n
  /\ Chosen(get_best_move(Ctx(board, player)))

GetBestMove == GetBestMoveUpTo(MaxHistory)

\* What a play_turn call that returned r leaves behind.
Played(r) ==
  /\ board' = Fresh(r.ctx.board)
  /\ player' = r.ctx.self
  /\ last' = [op |-> "play_turn", move |-> r.move, score |-> r.score,
              pre |-> board, before |-> player,
              pushes |-> r.ctx.board.pushes, pops |-> r.ctx.board.pops,
              high |-> r.ctx.board.high,
              log |-> r.ctx.log, trace |-> r.ctx.trace,
              args |-> <<>>]
  /\ UNCHANGED game

\* play_turn on the caller's board; the length of the game is capped.
PlayTurn ==
  /\ player.variant \in {"AC", "DC"}
  /\ Len(board.stack) <= MaxStack
  /\ Played(play_turn(Ctx(board, player)))

\* What an evaluate_position call that returned e leaves behind.
Scored(e) ==
  /\ board' = Fresh(e.board)
  /\ last' = [op |-> "evaluate", move |-> None, score |-> e.score,
              pre |-> board, before |-> player,
              pushes |-> e.board.pushes, pops |-> e.board.pops,
              high |-> e.board.high,
              log |-> {}, trace |-> <<>>, args |-> <<>>]
  /\ UNCHANGED <<game, player>>

EvaluatePosition == Scored(evaluate_position(Ctx(board, player)))

\* The caller plays a legal move on the board.
CallerPush ==
  /\ Len(board.stack) < MaxStack
  /\ \E i \in 1..Len(LegalMoves(board)) :
       board' = Fresh(Push(board, LegalMoves(board)[i]))
  /\ last' = Idle
  /\ UNCHANGED <<game, player>>

Next == GetBestMove \/ EvaluatePosition \/ PlayTurn \/ CallerPush

Spec == Init /\ [][Next]_vars

\* One AggressiveAttacker asked again and again for a move on the starting
\* position, long enough for its move_history to pass the opening threshold.
InitHistory ==
  /\ \E g \in ValueGames : game = [start |-> 1, pos |-> g]
  /\ board = NewBoard
  /\ player = NewPlayer("AA", AA_DEPTH + 1)
  /\ last = Idle

GetBestMoveLong == GetBestMoveUpTo(LongHistory)

NextHistory == GetBestMoveLong \/ EvaluatePosition

SpecHistory == InitHistory /\ [][NextHistory]_vars

\* The recursive search called directly on the caller's board, with any
\* window, on a player whose node counter and table are below MaxNodes.
Windows == {-Inf, 0, Inf}

InitSearch ==
  /\ \E g \in SearchGames : game = [start |-> 1, pos |-> g]
  /\ board = NewBoard
  /\ \E v \in Variants : player = NewPlayer(v, 1)
  /\ last = Idle

\* What a search call that returned r leaves behind.
Searched(r, depth, alpha, beta, maximizing) ==
  /\ board' = Fresh(r.ctx.board)
  /\ player' = r.ctx.self
  /\ last' = [op |-> "search", move |-> None, score |-> r.score,
              pre |-> board, before |-> player,
              pushes |-> r.ctx.board.pushes, pops |-> r.ctx.board.pops,
              high |-> r.ctx.board.high,
              log |-> r.ctx.log, trace |-> r.ctx.trace,
              args |-> [depth |-> depth, alpha |-> alpha, beta |-> beta,
                        maximizing |-> maximizing]]
  /\ UNCHANGED game

Search ==
  /\ player.nodes < MaxNodes
  /\ Cardinality(DOMAIN player.tt) < MaxNodes
  /\ \E depth \in 0..(MaxDepth - 1), alpha \in Windows, beta \in Windows,
        maximizing \in BOOLEAN :
       Searched(minimax(Ctx(board, player), depth, alpha, beta, maximizing),
                depth, alpha, beta, maximizing)

NextSearch == Search \/ CallerPush

SpecSearch == InitSearch /\ [][NextSearch]_vars

\* The ordering step called on the caller's board with a list of legal
\* moves: any order, repetitions allowed, up to MaxMoves entries.
MoveLists(b) ==
  UNION {[1..n -> {LegalMoves(b)[i] : i \in 1..Len(LegalMoves(b))}] :
           n \in 0..MaxMoves}

InitOrder ==
  /\ \E g \in Games \cup WideGames : game = [start |-> 1, pos |-> g]
  /\ board = NewBoard
  /\ \E v \in Variants : player = NewPlayer(v, 1)
  /\ last = Idle

\* What an ordering call on moves that returned o leaves behind.
Ordered(o, moves) ==
  /\ board' = Fresh(o.board)
  /\ last' = [op |-> "order", move |-> None, score |-> 0,
              pre |-> board, before |-> player,
              pushes |-> o.board.pushes, pops |-> o.board.pops,
              high |-> o.board.high, log |-> {},
              trace |-> <<>>,
              args |-> [moves |-> moves, ordered |-> o.moves,
                        input |-> o.input]]
  /\ UNCHANGED <<game, player>>

OrderMoves ==
  \E moves \in MoveLists(board) :
    Ordered(order_moves(player, board, moves), moves)

NextOrder == OrderMoves \/ CallerPush

SpecOrder == InitOrder /\ [][NextOrder]_vars

\* The ordering step on positions that offer captures of every sort.
InitCaptures ==
  /\ \E g \in CaptureGames : game = [start |-> 1, pos |-> g]
  /\ board = NewBoard
  /\ \E v \in Variants : player = NewPlayer(v, 1)
  /\ last = Idle

SpecCaptures == InitCaptures /\ [][NextOrder]_vars

\* The evaluator of each variant on the observed positions, White or Black
\* to move at the start.
InitEval ==
  /\ \E v \in Variants : \E o \in Observations : \E s \in 1..2 :
       /\ game = [start |-> s, pos |-> EvalGame(v, o)]
       /\ player = NewPlayer(v, 1)
  /\ board = NewBoard
  /\ last = Idle

NextEval == EvaluatePosition \/ CallerPush

SpecEval == InitEval /\ [][NextEval]_vars

\* One AggressiveAttacker through a game: it is asked for moves, its
\* evaluator and its ordering step are called, the caller moves and resets
\* the player.
InitReset ==
  /\ \E g \in Games : game = [start |-> 1, pos |-> g]
  /\ board = NewBoard
  /\ player = NewPlayer("AA", AA_DEPTH + 1)
  /\ last = Idle

Reset ==
  /\ player.variant = "AA"
  /\ player' = AA_reset(player)
  /\ last' = [op |-> "reset", move |-> None, score |-> 0,
              pre |-> board, before |-> player,
              pushes |-> 0, pops |-> 0, high |-> Len(board.stack),
              log |-> {}, trace |-> <<>>, args |-> <<>>]
  /\ UNCHANGED <<game, board>>

NextReset ==
  GetBestMove \/ EvaluatePosition \/ OrderMoves \/ Reset \/ CallerPush

SpecReset == InitReset /\ [][NextReset]_vars

(***************************************************************************)
(* Properties                                                              *)
(***************************************************************************)
Returned == last.op = "get_best_move"
Evaluated == last.op = "evaluate"
RootMoves == LegalMoves(last.pre)
IsRootMove(m) == \E i \in 1..Len(RootMoves) : RootMoves[i] = m

\* The move leaves the opponent checkmated.
Mates(b, m) == IsCheckmate(Push(b, m))
MateInOne == \E i \in 1..Len(RootMoves) : Mates(last.pre, RootMoves[i])

\* C1: whenever some legal move of the root position checkmates the
\* opponent, the move get_best_move returns checkmates the opponent (all six
\* players, every depth >= 1, either colour to move).
C1_ReturnsMatingMove ==
  (Returned /\ MateInOne) => (last.move # None /\ Mates(last.pre, last.move))

\* The same call made with every cutoff break removed.
FullMinimax ==
  get_best_move([Ctx(last.pre, last.before) EXCEPT !.prune = FALSE])

\* C2: for the variants without a transposition table, the search with
\* alpha-beta cutoffs returns the same move and the same root score as the
\* same search with the cutoff breaks removed.
C2_PruningPreservesResult ==
  (Returned /\ last.before.variant # "PD") =>
    (FullMinimax.move = last.move /\ FullMinimax.score = last.score)

\* A call in which a cutoff was taken: the search without the breaks
\* visits more nodes.
C2_Witness ==
  /\ Returned /\ last.before.variant # "PD" /\ last.move # None
  /\ FullMinimax.ctx.board.pushes > last.pushes

\* The same call made by an instance that never consults or fills its
\* transposition table.
NoTable ==
  get_best_move([Ctx(last.pre, last.before) EXCEPT !.table = FALSE])

\* What _minimax returns for the logged call when no table exists.
TableFree(e) ==
  PD_minimax([board |-> e.board,
              self |-> [last.before EXCEPT !.tt = EmptyTable],
              prune |-> TRUE, table |-> FALSE, log |-> {}, trace |-> <<>>],
             e.depth, e.alpha, e.beta, e.maximizing).score

\* C3: every score PositionalDefender's _minimax takes from the
\* transposition table (written earlier in this search or by earlier calls)
\* is the score the same _minimax call returns without any table, and
\* get_best_move chooses the same move with and without the table.
C3_TableTransparent ==
  (Returned /\ last.before.variant = "PD") =>
    /\ \A e \in last.log : e.served => e.score = TableFree(e)
    /\ NoTable.move = last.move

\* C4: when get_best_move returns, the board has the move stack and the
\* side to move it had when the call started, and the search has popped
\* every move it pushed.
C4_BoardRestored ==
  Returned =>
    /\ board.stack = last.pre.stack
    /\ board.turn = last.pre.turn
    /\ last.pops = last.pushes

\* A call that searched below the root and took a cutoff on the way.
C4_Witness ==
  /\ Returned /\ last.move # None /\ last.pushes > 0
  /\ last.before.variant # "PD"
  /\ FullMinimax.ctx.board.pushes > last.pushes

\* C5: two consecutive get_best_move calls on the same instance and the
\* same position return the same move.
C5_Deterministic ==
  [][(Returned /\ last'.op = "get_best_move" /\ last'.pre = last.pre)
       => last'.move = last.move]_vars

\* C6: whenever the root position has a legal move, get_best_move returns
\* one of the root position's legal moves, never None.
C6_ReturnsLegalMove ==
  (Returned /\ RootMoves # <<>>) => IsRootMove(last.move)

\* C7: when the root position has no legal move, get_best_move returns None
\* without pushing a move and without entering the search: no node is
\* counted, no table entry written, no move recorded.
C7_NoneWithoutSearch ==
  (Returned /\ RootMoves = <<>>) =>
    /\ last.move = None
    /\ last.pushes = 0
    /\ player.nodes \in {0, last.before.nodes}
    /\ player.tt = last.before.tt
    /\ player.history = last.before.history
    /\ board = last.pre

\* get_best_move has returned on a checkmated root.
C7_Witness ==
  /\ Returned /\ RootMoves = <<>>
  /\ Cls(last.pre) = "checkmate"

\* C8: in every variant the evaluator returns exactly 0 on a position that
\* is a stalemate, has insufficient material or is a claimable draw.
C8_DrawEvaluatesToZero ==
  (Evaluated /\ (IsStalemate(last.pre) \/ IsInsufficientMaterial(last.pre)
                   \/ CanClaimDraw(last.pre)))
    => last.score = 0

\* C9: AggressiveChessPlayer.evaluate_position returns the forced-loss
\* sentinel, a negative score for the side to move, on every checkmated
\* position, whether White or Black is the mated side to move.
C9_MatedSideToMoveLoses ==
  (Evaluated /\ last.before.variant = "AC" /\ IsCheckmate(last.pre))
    => last.score = -AC_MATE

\* C10: PositionalDefender's _minimax serves a table entry only when its
\* stored depth is at least the depth asked for; a frame that finds a
\* shallower entry searches the node again and leaves the entry
\* (depth asked for, score returned).
C10_NoShallowEntryServed ==
  (Returned /\ last.before.variant = "PD") =>
    \A e \in last.log :
      /\ e.served => e.found[1] >= e.depth
      /\ e.found[1] < e.depth =>
           (~e.served /\ e.left = <<e.depth, e.score>>)

\* A frame found an entry searched to a lesser depth than it asked for.
C10_Witness ==
  /\ Returned /\ last.before.variant = "PD"
  /\ \E e \in last.log : e.found[1] < e.depth

\* C11: in PositionalDefender the depth stored under a position key never
\* decreases: a frame that finds an entry either leaves it as it is or
\* leaves an entry of strictly greater depth, and after a get_best_move
\* call every key of the table holds a depth at least the one it held
\* before the call.
C11_StoredDepthNeverDecreases ==
  (Returned /\ last.before.variant = "PD") =>
    /\ \A e \in last.log :
         e.left = e.found \/ e.left[1] > e.found[1]
    /\ \A k \in DOMAIN last.before.tt :
         /\ k \in DOMAIN player.tt
         /\ player.tt[k][1] >= last.before.tt[k][1]

\* A call that replaced an entry of an earlier call by a deeper one.
C11_Witness ==
  /\ Returned /\ last.before.variant = "PD"
  /\ \E k \in DOMAIN last.before.tt :
       player.tt[k][1] > last.before.tt[k][1]

\* The boards a search of n plies below b can stand on.
RECURSIVE Below(_, _)
Below(b, n) ==
  IF n = 0 THEN {b}
  ELSE {b} \cup UNION {Below(Push(b, LegalMoves(b)[i]), n - 1) :
                         i \in 1..Len(LegalMoves(b))}

\* The value of searching board b to the given depth with the window
\* (-inf, +inf) and no table; PositionalDefender's search maximizes exactly
\* at the nodes where Black is to move.
FullWindow(b, depth) ==
  PD_minimax([board |-> Fresh(b),
              self |-> [last.before EXCEPT !.tt = EmptyTable],
              prune |-> TRUE, table |-> FALSE, log |-> {}, trace |-> <<>>],
             depth, -Inf, Inf, ~b.turn).score

\* C12: every entry (depth d, score s) of PositionalDefender's table is the
\* value of searching its position to depth d with the full window,
\* whatever window and path the frame that wrote it had.
C12_EntriesAreFullWindowValues ==
  (Returned /\ last.before.variant = "PD") =>
    \A b \in Below(last.pre, last.before.depth) :
      Fen(b) \in DOMAIN player.tt =>
        player.tt[Fen(b)][2] = FullWindow(b, player.tt[Fen(b)][1])

\* The node counter the same call leaves on an instance whose counter was 0
\* when the call started: the nodes visited during the call.
NodesOfCall ==
  get_best_move(Ctx(last.pre, [last.before EXCEPT !.nodes = 0])).ctx.self.nodes

\* C13: in the four variants that keep a node counter, the counter after a
\* get_best_move call holds the nodes visited during that call only, also
\* when the call returns None because the game is over.
C13_CounterResetEachCall ==
  (Returned /\ last.before.variant \in {"AC", "DC", "AP", "PP"}) =>
    player.nodes = NodesOfCall

\* The same call made by the same player configured one ply deeper.
Deeper ==
  get_best_move(Ctx(last.pre, [last.before EXCEPT !.depth = @ + 1]))

\* C14: for a fixed position, player and move ordering, the node counter
\* after get_best_move with search depth d + 1 is strictly greater than the
\* node counter after get_best_move with search depth d (stated for the
\* calls that return a move).
C14_NodesStrictlyIncrease ==
  (Returned /\ last.before.variant \in {"AC", "DC", "AP", "PP"}
            /\ last.move # None) =>
    Deeper.ctx.self.nodes > player.nodes

\* The deeper call with every cutoff break removed.
DeeperFull ==
  get_best_move([Ctx(last.pre, [last.before EXCEPT !.depth = @ + 1])
                   EXCEPT !.prune = FALSE])

\* Neither the call nor the deeper call took a cutoff: each pushed as many
\* moves as the same search without the breaks.
NoCutoffs ==
  /\ FullMinimax.ctx.board.pushes = last.pushes
  /\ DeeperFull.ctx.board.pushes = Deeper.ctx.board.pushes

\* The boards n plies below b that a search reaches through positions that
\* are not game over.
RECURSIVE Horizon(_, _)
Horizon(b, n) ==
  IF n = 0 THEN {b}
  ELSE IF IsGameOver(b) THEN {}
  ELSE UNION {Horizon(Push(b, LegalMoves(b)[i]), n - 1) :
                i \in 1..Len(LegalMoves(b))}

\* Some position at the horizon of the call is still to be played.
HorizonOpen ==
  \E b \in Horizon(last.pre, last.before.depth) :
    ~IsGameOver(b) /\ LegalMoves(b) # <<>>

\* C14 (amended): when neither search takes a cutoff, the node counter
\* after get_best_move at depth d + 1 is at least the counter at depth d,
\* and strictly greater when some position at the horizon of the depth-d
\* search is not game over and has a legal move.
C14_NodesGrowWithoutCutoffs ==
  (Returned /\ last.before.variant \in {"AC", "DC", "AP", "PP"} /\ NoCutoffs)
    => /\ Deeper.ctx.self.nodes >= player.nodes
       /\ HorizonOpen => Deeper.ctx.self.nodes > player.nodes

\* A cutoff-free pair of searches in which the deeper one counted more
\* nodes below an open horizon.
C14_Witness ==
  /\ Returned /\ last.before.variant \in {"AC", "DC", "AP", "PP"}
  /\ last.before.depth >= 2
  /\ NoCutoffs /\ HorizonOpen
  /\ Deeper.ctx.self.nodes > player.nodes

SearchReturned == last.op = "search"

\* C15: when the recursive search is at a node with remaining depth > 0
\* that is not classified as game over but has no legal move, it returns
\* the evaluator's score of that position, not the untouched initial best
\* value.
C15_NoMovesFallsBackToEvaluation ==
  (SearchReturned /\ last.args.depth > 0 /\ ~IsGameOver(last.pre)
             /\ LegalMoves(last.pre) = <<>>)
    => last.score = evaluate_position(Ctx(last.pre, last.before)).score

\* C16: a recursive search call entered with alpha > beta is an immediate
\* cutoff: it searches no child move, so the only moves it may have pushed
\* are the ones the ordering step tries, one push per legal move.
C16_InvertedWindowCutsOff ==
  (SearchReturned /\ last.args.alpha > last.args.beta)
    => last.pushes <= Len(LegalMoves(last.pre))

OrderReturned == last.op = "order"

\* The key the ordering of the calling player gives a move on the board of
\* the call.
Key(m) == move_score(last.before, last.pre, m).score

Count(seq, m) == Cardinality({i \in 1..Len(seq) : seq[i] = m})

\* The returned list holds the moves of the list passed in, each as often.
IsPermutation ==
  /\ Len(last.args.ordered) = Len(last.args.moves)
  /\ \A i \in 1..Len(last.args.moves) :
       Count(last.args.ordered, last.args.moves[i])
         = Count(last.args.moves, last.args.moves[i])

\* The returned list is sorted by non-increasing key.
IsSortedDescending ==
  \A i, j \in 1..Len(last.args.ordered) :
    i < j => Key(last.args.ordered[i]) >= Key(last.args.ordered[j])

\* Moves of equal key come out in the order they went in.
IsStable ==
  \A i \in 1..Len(last.args.moves) :
    SelectSeq(last.args.ordered,
              LAMBDA m : Key(m) = Key(last.args.moves[i]))
      = SelectSeq(last.args.moves,
                  LAMBDA m : Key(m) = Key(last.args.moves[i]))

\* C17: in every variant the ordering step returns a permutation of the
\* list passed in, sorted by non-increasing key, ties in input order, and
\* the list passed in is left as it was.
C17_OrderingSortsWithoutMutation ==
  OrderReturned =>
    /\ IsPermutation /\ IsSortedDescending /\ IsStable
    /\ last.args.input = last.args.moves

\* C17 (amended): in every variant the ordering step yields a permutation
\* of its list, sorted by non-increasing key, ties in input order; the five
\* _order_moves methods leave the list passed in as it was, while
\* DefensiveChessPlayer sorts its own copy of the legal moves in place.
C17_OrderingSortsStably ==
  OrderReturned =>
    /\ IsPermutation /\ IsSortedDescending /\ IsStable
    /\ last.before.variant # "DC" => last.args.input = last.args.moves
    /\ last.before.variant = "DC" => last.args.input = last.args.ordered

\* An ordering call that had to move a later move to the front and to keep
\* two different moves of equal key in their input order.
C17_Witness ==
  /\ OrderReturned
  /\ last.args.ordered # last.args.moves
  /\ \E i, j \in 1..Len(last.args.moves) :
       /\ i < j
       /\ last.args.moves[i] # last.args.moves[j]
       /\ Key(last.args.moves[i]) = Key(last.args.moves[j])

\* The board the ordering step of the call stands on after scoring the
\* first i candidate moves.
BoardAfterScoring(i) ==
  order_moves(last.before, last.pre, SubSeq(last.args.moves, 1, i)).board

\* C18: scoring a candidate move during ordering pushes it once and pops it
\* before the next candidate is scored: after every scoring step, and when
\* the ordering step returns, the board has the move stack and side to move
\* it had when the step started, and one push and one pop were made per
\* candidate.
C18_OrderingRestoresBoard ==
  OrderReturned =>
    /\ \A i \in 0..Len(last.args.moves) :
         /\ BoardAfterScoring(i).stack = last.pre.stack
         /\ BoardAfterScoring(i).turn = last.pre.turn
         /\ BoardAfterScoring(i).pushes = i
         /\ BoardAfterScoring(i).pops = i
    /\ board.stack = last.pre.stack /\ board.turn = last.pre.turn
    /\ last.pushes = Len(last.args.moves)
    /\ last.pops = Len(last.args.moves)

\* An ordering call on a board the caller has moved on, with three
\* candidates to score.
C18_Witness ==
  /\ OrderReturned
  /\ Len(last.pre.stack) > 0
  /\ Len(last.args.moves) = MaxMoves
  /\ last.pushes = MaxMoves

\* C19: in the list the ordering step returns, no move that does not
\* deliver checkmate stands before a move that does.
C19_MateOrderedFirst ==
  OrderReturned =>
    \A i, j \in 1..Len(last.args.ordered) :
      (i < j /\ Mates(last.pre, last.args.ordered[j]))
        => Mates(last.pre, last.args.ordered[i])

\* C20: evaluating a position leaves the caller's board with the move
\* stack and the side to move it had before the call; every null move the
\* evaluator pushed to look at the other side has been popped.
C20_EvaluationRestoresBoard ==
  Evaluated =>
    /\ board.stack = last.pre.stack
    /\ board.turn = last.pre.turn
    /\ last.pops = last.pushes

\* An evaluation with Black to move that probed the other side with a null
\* move.
C20_Witness ==
  /\ Evaluated
  /\ last.pre.turn = BLACK
  /\ last.pushes > 0

TurnPlayed == last.op = "play_turn"

\* C21: when play_turn of AggressiveChessPlayer or DefensiveChessPlayer
\* returns a move m, the board's move stack is the stack before the call
\* extended by exactly m, m is legal in the prior position and the other
\* side is to move; when it returns None the board is unchanged.
C21_PlayTurnAppliesMove ==
  TurnPlayed =>
    IF last.move # None
    THEN /\ IsRootMove(last.move)
         /\ board.stack = Append(last.pre.stack, last.move)
         /\ board.turn = ~last.pre.turn
         /\ board.at = last.move.to
    ELSE board = last.pre

\* A play_turn that played a move found by a search below the root.
C21_Witness ==
  /\ TurnPlayed
  /\ last.move # None
  /\ last.before.depth >= 2
  /\ last.pushes > 3

Magnitude(x) == IF x < 0 THEN -x ELSE x

\* The score that evaluate_position gives a checkmated position, unsigned.
MateMagnitude(v) ==
  CASE v = "AC" -> AC_MATE
    [] v = "DC" -> DC_MATE
    [] v \in {"AP", "PD"} -> AP_MATE
    [] v \in {"PP", "AA"} -> Inf

OrderingValue(piece) ==
  IF last.before.variant = "AA" THEN AA_PIECE_VALUES[piece]
  ELSE PIECE_VALUES[piece]

\* Two moves to the same square that differ in the named fact only.
DifferOnlyIn(m1, m2, fact) ==
  /\ m1.to = m2.to
  /\ MoveKinds[m1.kind][fact] # MoveKinds[m2.kind][fact]
  /\ \A f \in DOMAIN MoveKinds[m1.kind] \ {fact} :
       MoveKinds[m1.kind][f] = MoveKinds[m2.kind][f]

Capturing(m) == MoveKinds[m.kind].capture
Takes(m) == Capturing(m) /\ MoveKinds[m.kind].victim # NoPiece
InList(m) == \E i \in 1..Len(last.args.moves) : last.args.moves[i] = m

\* For two captures that differ only in the captured piece, the more
\* valuable victim has the strictly higher key.
MostValuableVictim ==
  \A i, j \in 1..Len(last.args.moves) :
    LET m1 == last.args.moves[i]
        m2 == last.args.moves[j]
    IN (/\ Takes(m1) /\ Takes(m2) /\ DifferOnlyIn(m1, m2, "victim")
        /\ OrderingValue(MoveKinds[m1.kind].victim)
             > OrderingValue(MoveKinds[m2.kind].victim))
         => Key(m1) > Key(m2)

\* For two captures that differ only in the capturing piece, the less
\* valuable attacker has a key at least as high.
LeastValuableAttacker ==
  \A i, j \in 1..Len(last.args.moves) :
    LET m1 == last.args.moves[i]
        m2 == last.args.moves[j]
    IN (/\ Takes(m1) /\ Takes(m2) /\ DifferOnlyIn(m1, m2, "piece")
        /\ OrderingValue(MoveKinds[m1.kind].piece)
             < OrderingValue(MoveKinds[m2.kind].piece))
         => Key(m1) >= Key(m2)

\* A capture onto an empty square has a strictly higher key than the same
\* move would have if it captured nothing.
EnPassantIsCapture ==
  \A i, j \in 1..Len(last.args.moves) :
    LET m1 == last.args.moves[i]
        m2 == last.args.moves[j]
    IN (/\ Capturing(m1) /\ ~Takes(m1) /\ ~Capturing(m2)
        /\ DifferOnlyIn(m1, m2, "capture"))
         => Key(m1) > Key(m2)

\* C23: in every variant's move ordering, of two captures that differ only
\* in the captured piece the one taking the more valuable piece has the
\* strictly higher key; of two captures that differ only in the capturing
\* piece the one by the less valuable piece has a key at least as high; and
\* a capture onto an empty square (en passant) is still scored as a capture.
C23_CaptureOrdering ==
  OrderReturned =>
    MostValuableVictim /\ LeastValuableAttacker /\ EnPassantIsCapture

\* The recursive search calls the returned get_best_move call entered.
Calls ==
  {last.trace[n] : n \in {k \in 1..Len(last.trace) :
                            last.trace[k].ev = "call"}}

\* C24: in DefensiveChessPlayer, AggressivePlayer, PositionalDefender and
\* PositionalPlayer, at every node a search started from get_best_move
\* visits, the maximizing flag is true exactly when White is to move at
\* that node, for a root with White to move and one with Black to move.
C24_MaximizingIsWhite ==
  (Returned /\ last.before.variant \in {"DC", "AP", "PD", "PP"}) =>
    \A e \in Calls : e.maximizing <=> (e.turn = WHITE)

\* What _alpha_beta without cutoffs returns below root move m: the
\* depth-limited minimax value of m for the side to move at the root, who
\* maximizes at its own nodes while the opponent minimizes.
MoverValue(m) ==
  AA_alpha_beta([Ctx(Push(last.pre, m), last.before) EXCEPT !.prune = FALSE],
                AA_DEPTH, -Inf, Inf, FALSE).score

\* C25: AggressiveAttacker.get_best_move returns a root move whose
\* depth-limited minimax value for the side to move at the root is the
\* maximum over all root moves.
C25_AttackerMaximizesMoverValue ==
  (Returned /\ last.before.variant = "AA" /\ RootMoves # <<>>) =>
    /\ IsRootMove(last.move)
    /\ \A i \in 1..Len(RootMoves) :
         MoverValue(last.move) >= MoverValue(RootMoves[i])

\* The stack of a node directly below the node with stack s.
IsChildOf(t, s) == Len(t) = Len(s) + 1 /\ SubSeq(t, 1, Len(s)) = s

\* The n-th step of the search folded a child's score into bounds that
\* have met or crossed.
CutoffAt(n) ==
  last.trace[n].ev = "fold" /\ last.trace[n].alpha >= last.trace[n].beta

\* The board of the node a step belongs to.
NodeBoard(e) ==
  [stack |-> e.stack, turn |-> e.turn, at |-> Replay(e.stack),
   pushes |-> 0, pops |-> 0, high |-> Len(e.stack)]

\* The calls the search entered directly below the node with stack s.
ChildrenSearched(s) ==
  {k \in 1..Len(last.trace) :
     last.trace[k].ev = "call" /\ IsChildOf(last.trace[k].stack, s)}

\* The call got past the guards of get_best_move to its root loop.
RootSearched ==
  /\ RootMoves # <<>>
  /\ last.before.variant \in {"PD", "PP"} => ~IsGameOver(last.pre)

\* C26: in every variant's recursive search, once alpha >= beta holds after
\* a child's score has been folded into the bounds, no further sibling of
\* that node is searched and the node returns its best value so far, which
\* is the score its parent folds next; the root loops of
\* AggressiveChessPlayer, AggressiveAttacker, AggressivePlayer,
\* PositionalDefender and PositionalPlayer take no cutoff and search every
\* root move.
C26_CutoffStopsSiblings ==
  Returned =>
    /\ \A n \in 1..Len(last.trace) :
         CutoffAt(n) =>
           /\ \A k \in ChildrenSearched(last.trace[n].stack) : k < n
           /\ (n < Len(last.trace) /\ last.trace[n + 1].ev = "fold") =>
                /\ IsChildOf(last.trace[n].stack, last.trace[n + 1].stack)
                /\ last.trace[n + 1].score = last.trace[n].best
           /\ last.trace[n].stack = last.pre.stack =>
                last.score = last.trace[n].best
    /\ (last.before.variant # "DC" /\ RootSearched) =>
         \A i \in 1..Len(RootMoves) :
           \E k \in ChildrenSearched(last.pre.stack) :
             last.trace[k].stack = Append(last.pre.stack, RootMoves[i])

\* A search that took a cutoff at a node with a legal move left unsearched,
\* below a root with more than one move.
C26_Witness ==
  /\ Returned /\ last.move # None /\ Len(RootMoves) > 1
  /\ \E n \in 1..Len(last.trace) :
       /\ CutoffAt(n)
       /\ Cardinality(ChildrenSearched(last.trace[n].stack))
            < Len(LegalMoves(NodeBoard(last.trace[n])))

\* C27: in every search started by get_best_move, every recursive search
\* call is entered with alpha strictly less than beta, also in
\* PositionalPlayer, whose checkmate score is infinite and whose root loop
\* goes on after a child's score has been folded into alpha or beta.
C27_WindowOpenOnEntry ==
  Returned => \A e \in Calls : e.alpha < e.beta

\* The plies between the root of the call and the node of a step.
Ply(e) == Len(e.stack) - Len(last.pre.stack)

\* The depth the instance searches to: AggressiveAttacker always looks
\* three plies below its root moves.
ConfiguredDepth ==
  IF last.before.variant = "AA" THEN AA_DEPTH + 1 ELSE last.before.depth

\* C28: with a search depth of at least 1, every recursive search call
\* started by get_best_move has a remaining depth between 0 and the
\* configured depth, one less for every ply below the root; the board's
\* move stack never grows by more than the configured depth plus one
\* speculative push; and the search ends, entering no node twice.
C28_DepthBoundsSearch ==
  (Returned /\ ConfiguredDepth >= 1) =>
    /\ \A e \in Calls :
         /\ 0 <= e.depth /\ e.depth <= ConfiguredDepth
         /\ e.depth = ConfiguredDepth - Ply(e)
    /\ last.high <= Len(last.pre.stack) + ConfiguredDepth + 1
    /\ \A j, k \in 1..Len(last.trace) :
         (/\ j < k /\ last.trace[j].ev = "call" /\ last.trace[k].ev = "call")
           => last.trace[j].stack # last.trace[k].stack

\* A search to the deepest configured depth, on a board the caller has
\* moved on, that reached depth 0 and made a speculative push there.
C28_Witness ==
  /\ Returned /\ last.before.depth = MaxDepth /\ Len(last.pre.stack) > 0
  /\ \E e \in Calls : e.depth = 0
  /\ last.high = Len(last.pre.stack) + ConfiguredDepth + 1

\* The comparisons the root of the call made, one per root move searched,
\* in the order of the ordered root move list. DefensiveChessPlayer's root
\* is a frame of its recursive search.
RootSteps ==
  SelectSeq(last.trace,
            LAMBDA e : IF last.before.variant = "DC"
                       THEN e.ev = "fold" /\ e.stack = last.pre.stack
                       ELSE e.ev = "root")

RootCalls == SelectSeq(last.trace, LAMBDA e : e.ev = "call" /\ Ply(e) = 1)

\* The root move the k-th comparison was about.
RootMoveOf(k) ==
  IF last.before.variant = "DC"
  THEN RootCalls[k].stack[Len(RootCalls[k].stack)]
  ELSE RootSteps[k].stack[Len(RootSteps[k].stack)]

StrictlyBetter(a, b, maximizing) == IF maximizing THEN a > b ELSE a < b

\* The k-th root move has the best score and no earlier root move has it.
FirstBest(k) ==
  /\ \A j \in 1..Len(RootSteps) :
       ~StrictlyBetter(RootSteps[j].score, RootSteps[k].score,
                       RootSteps[k].maximizing)
  /\ \A j \in 1..(k - 1) : RootSteps[j].score # RootSteps[k].score

\* C29: in every variant, when several root moves obtain the same best
\* score, get_best_move returns the one that comes first in the ordered
\* root move list: the move it returns is the first whose score no other
\* root move strictly betters (greater for a maximizing root, smaller for
\* a minimizing root).
C29_FirstBestMoveKept ==
  (Returned /\ RootSteps # <<>>) =>
    \E k \in 1..Len(RootSteps) : FirstBest(k) /\ last.move = RootMoveOf(k)

WasReset == last.op = "reset"

\* C30: AggressiveAttacker's get_best_move appends the move it returns to
\* move_history exactly once and leaves move_history as it was when it
\* returns None; the evaluator and the ordering step leave it as it was;
\* reset() leaves it empty.
C30_HistoryRecordsReturnedMoves ==
  /\ (Returned /\ last.move # None) =>
       player.history = Append(last.before.history, last.move)
  /\ (Returned /\ last.move = None) => player.history = last.before.history
  /\ (Evaluated \/ OrderReturned) => player.history = last.before.history
  /\ WasReset => player.history = <<>>

\* A reset of a player that had recorded the moves of two calls.
C30_Witness ==
  /\ WasReset
  /\ Len(last.before.history) = MaxHistory

====
